---- MODULE Spec2Model ----
(***************************************************************************)
(* Gemini Voice Studio: the section/subsection tree kept by App            *)
(* (useState snippets), the per-node generation jobs (generateSnippet,     *)
(* generateSubsection), the section editor's whole-object updates, and     *)
(* the document-level generation with its staleness fingerprint.           *)
(*                                                                         *)
(* Texts and names are sequences of one-character strings so that          *)
(* substring and trim are computed as String.prototype.substring and       *)
(* String.prototype.trim compute them.                                     *)
(***************************************************************************)
EXTENDS Integers, Sequences, FiniteSets, TLC

VARIABLES
    snippets,            \* useState<Snippet[]>: the hook's current state (what `prev` is)
    rendered,            \* the `snippets` value closed over by the handlers of the last render
    nextId,              \* number of ids crypto.randomUUID() has handed out
    calls,               \* per-node generate calls, in issue order: the async function instances
    order,               \* the per-node calls in the order they resolved
    edits,               \* author edits of a node made so far
    mode,                \* useState<AppMode>
    loading,             \* useState(false)
    error,               \* useState<string | null>
    generatedAudio,      \* useState<GeneratedAudio | null>
    lastGeneratedHash,   \* useState<string>('')
    narrationText,
    narrationVoice,
    script,
    characters,
    cloningText,
    cloningReference,
    transcriptionFile,
    transcriptionResult,
    docCalls,            \* handleGenerate invocations that reached a collaborator, in issue order
    docEdits,            \* edits of document-level inputs made so far
    docIssued,           \* number of document-level generations issued so far
    appName,             \* useState("MyApp")
    featureName,         \* useState("Tutorial")
    isZipping,           \* useState(false) of TableOfContents
    zips,                \* handleDownloadAll invocations, each with the zip it built and where it is
    downloads,           \* the bundles handed to the browser, in order
    alerts,              \* number of alert() dialogs shown
    cloneCalls           \* generateClonedSpeech invocations, each with its requests and answers

treeVars == <<snippets, rendered, nextId, calls, order, edits>>
docVars == <<mode, loading, error, generatedAudio, lastGeneratedHash, script, characters,
             cloningText, cloningReference, transcriptionFile, transcriptionResult,
             docCalls, docEdits, docIssued>>
inputVars == <<narrationText, narrationVoice>>
exportVars == <<appName, featureName, isZipping, zips, downloads, alerts>>
serviceVars == <<cloneCalls>>
vars == <<treeVars, docVars, inputVars, exportVars, serviceVars>>

----------------------------------------------------------------------------
(* Bounds of the model *)

\* nodes created + per-node generate calls issued + author edits of a node, per run
MaxWork == 4
\* document-level generate calls issued + edits of document-level inputs, per run
MaxDocWork == 4
\* sections of a tree handed to the export
MaxSections == 2
\* export attempts per run
MaxExports == 2
\* characters of an app name typed by the author, where names are enumerated
MaxNameLen == 3
\* generateClonedSpeech invocations per run
MaxCloneCalls == 2

----------------------------------------------------------------------------
(* Values *)

null == "null"

VoiceName == {"Kore", "Puck", "Charon", "Fenrir", "Aoede"}

\* the voices the model's author picks among
VoiceInputs == {"Kore", "Puck"}

Whitespace == {" ", "\n", "\t"}

Min(S) == CHOOSE x \in S : \A y \in S : x <= y
Max(S) == CHOOSE x \in S : \A y \in S : x >= y

\* String.prototype.trim
trim(t) ==
    LET keep == {i \in 1..Len(t) : t[i] \notin Whitespace}
    IN  IF keep = {} THEN <<>> ELSE SubSeq(t, Min(keep), Max(keep))

\* String.prototype.substring(start, end), offsets counted from 0
substring(t, start, end) == SubSeq(t, start + 1, end)

DigitChar == <<"0", "1", "2", "3", "4", "5", "6", "7", "8", "9">>

RECURSIVE NatToChars(_)
NatToChars(n) ==
    IF n < 10 THEN <<DigitChar[n + 1]>>
    ELSE NatToChars(n \div 10) \o <<DigitChar[(n % 10) + 1]>>

\* `Section ${snippets.length + 1}`
SectionName(n) == <<"S", "e", "c", "t", "i", "o", "n", " ">> \o NatToChars(n)

\* a part name that counts the existing subsections only
PartNameOfCount(n) == <<"P", "a", "r", "t", " ">> \o NatToChars(n - 1)

\* `Part ${section.subsections.length + 1}`
PartName(n) == <<"P", "a", "r", "t", " ">> \o NatToChars(n)

\* the GeneratedAudio object a call builds: a fresh blob and object URL per call
Blob(kind, c) == kind \o ToString(c)

\* the messages a failing synthesis or decode rejects with
Messages == {"No audio data returned from Gemini API", "decode failed"}

\* the master text the author has typed in
DefaultText == <<"a", " ">>

\* what the author types into a section's or subsection's text area or name field
TextInputs == {<<" ">>}
NameInputs == {<<"I", "n", "t", "r", "o">>}

\* the text selections the author makes, as (selectionStart, selectionEnd): an empty one,
\* a blank one and one with text in it
Selections == {<<0, 0>>, <<1, 2>>, <<0, 2>>}

----------------------------------------------------------------------------
(* Sequence helpers: Array.prototype.map / filter / find *)

\* what a run has used of MaxWork
Work == nextId + Len(calls) + edits

Ids(seq) == {seq[i].id : i \in 1..Len(seq)}

Find(seq, id) == seq[CHOOSE i \in 1..Len(seq) : seq[i].id = id]

\* a filter that drops the element created next as well
WithoutItAndTheNext(seq, id) == SelectSeq(seq, LAMBDA s : s.id # id /\ s.id # id + 1)

Without(seq, id) == SelectSeq(seq, LAMBDA s : s.id # id)

----------------------------------------------------------------------------
(* The tree: Snippet and Subsection objects *)

NewSnippet(id, name, text, voice) ==
    [id |-> id, name |-> name, text |-> text, voice |-> voice, audio |-> null,
     status |-> "idle", error |-> null, subsections |-> <<>>]

\* a subsection that takes the id handed out before its own
NewSubsectionReusingLastId(id, name, text, voice) ==
    [id |-> id - 1, name |-> name, text |-> text, voice |-> voice, audio |-> null,
     status |-> "idle", error |-> null]

NewSubsection(id, name, text, voice) ==
    [id |-> id, name |-> name, text |-> text, voice |-> voice, audio |-> null,
     status |-> "idle", error |-> null]

\* { ...obj, ...updates }
Merge(obj, updates) ==
    [f \in DOMAIN obj |-> IF f \in DOMAIN updates THEN updates[f] ELSE obj[f]]

\* snippets.map(s => s.id === updatedSnippet.id ? updatedSnippet : s), on the closed-over array
updateSnippet(updatedSnippet) ==
    [i \in 1..Len(rendered) |->
        IF rendered[i].id = updatedSnippet.id THEN updatedSnippet ELSE rendered[i]]

\* prev.map(s => s.id === id ? { ...s, status: 'generating', error: null } : s)
SetGenerating(prev, id) ==
    [i \in 1..Len(prev) |->
        IF prev[i].id = id THEN Merge(prev[i], [status |-> "generating", error |-> null])
        ELSE prev[i]]

\* prev.map(s => s.id === id ? { ...s, status: 'success', audio } : s)
\* a success write that inserts the node when it is gone
SetSuccessOrInsert(prev, id, audio) ==
    IF id \in Ids(prev)
    THEN [i \in 1..Len(prev) |->
             IF prev[i].id = id THEN Merge(prev[i], [status |-> "success", audio |-> audio])
             ELSE prev[i]]
    ELSE Append(prev, Merge(NewSnippet(id, <<>>, <<>>, "Kore"),
                            [status |-> "success", audio |-> audio]))

SetSuccess(prev, id, audio) ==
    [i \in 1..Len(prev) |->
        IF prev[i].id = id THEN Merge(prev[i], [status |-> "success", audio |-> audio])
        ELSE prev[i]]

\* prev.map(s => s.id === id ? { ...s, status: 'error', error: err.message } : s)
\* a failure handler that puts the node back to idle instead of marking the error
SetErrorResettingStatus(prev, id, message) ==
    [i \in 1..Len(prev) |->
        IF prev[i].id = id THEN Merge(prev[i], [status |-> "idle", error |-> message])
        ELSE prev[i]]

\* a failure handler that drops the artifact the node held
SetErrorDroppingArtifact(prev, id, message) ==
    [i \in 1..Len(prev) |->
        IF prev[i].id = id
        THEN Merge(prev[i], [status |-> "error", error |-> message, audio |-> null])
        ELSE prev[i]]

SetError(prev, id, message) ==
    [i \in 1..Len(prev) |->
        IF prev[i].id = id THEN Merge(prev[i], [status |-> "error", error |-> message])
        ELSE prev[i]]

\* prev.map(s => s.id === sectionId ? { ...s, subsections: s.subsections.map(...) } : s)
MapSubsection(prev, sectionId, subsectionId, updates) ==
    [i \in 1..Len(prev) |->
        IF prev[i].id = sectionId
        THEN [prev[i] EXCEPT !.subsections =
                [j \in 1..Len(@) |->
                    IF @[j].id = subsectionId THEN Merge(@[j], updates) ELSE @[j]]]
        ELSE prev[i]]

SubSetGenerating(prev, sectionId, subsectionId) ==
    MapSubsection(prev, sectionId, subsectionId, [status |-> "generating", error |-> null])

\* a subsection's success that marks its section as well
SubSetSuccessMarkingSection(prev, sectionId, subsectionId, audio) ==
    SetSuccess(MapSubsection(prev, sectionId, subsectionId,
                             [status |-> "success", audio |-> audio]), sectionId, audio)

SubSetSuccess(prev, sectionId, subsectionId, audio) ==
    MapSubsection(prev, sectionId, subsectionId, [status |-> "success", audio |-> audio])

SubSetError(prev, sectionId, subsectionId, message) ==
    MapSubsection(prev, sectionId, subsectionId, [status |-> "error", error |-> message])

\* a per-node call awaiting processGeneration(text, voice); sub = 0 for a section
NewCall(sec, sub, text, voice) ==
    [sec |-> sec, sub |-> sub, text |-> text, voice |-> voice, pc |-> "await",
     result |-> "pending"]

NodeFields == {"id", "name", "text", "voice", "audio", "status", "error"}

\* whether section sec (sub = 0) or its subsection sub is in the tree
Exists(tree, sec, sub) ==
    /\ sec \in Ids(tree)
    /\ sub # 0 => sub \in Ids(Find(tree, sec).subsections)

\* the node itself (its own fields, without the children), when it exists
NodeOf(tree, sec, sub) ==
    IF sub = 0 THEN [f \in NodeFields |-> Find(tree, sec)[f]]
    ELSE Find(Find(tree, sec).subsections, sub)

\* every (section, subsection-or-0) pair of a tree
Nodes(tree) ==
    {<<tree[i].id, 0>> : i \in 1..Len(tree)} \cup
    UNION {{<<tree[i].id, tree[i].subsections[j].id>> : j \in 1..Len(tree[i].subsections)} :
              i \in 1..Len(tree)}

----------------------------------------------------------------------------
(* Author operations on the tree.  Each runs inside one discrete event:     *)
(* it reads the closed-over `snippets` (rendered), writes the hook state,   *)
(* and React re-renders before the next event (rendered' = snippets').      *)

Commit(tree) ==
    /\ snippets' = tree
    /\ rendered' = tree

addSnippetFromSelection(start, end) ==
    LET selectedText == substring(narrationText, start, end)
    IN  \/ /\ start = end
           /\ UNCHANGED vars
        \/ /\ start # end
           /\ trim(selectedText) = <<>>
           /\ UNCHANGED vars
        \/ /\ start # end
           /\ trim(selectedText) # <<>>
           /\ Work < MaxWork
           /\ nextId' = nextId + 1
           /\ Commit(Append(rendered,
                  NewSnippet(nextId + 1, SectionName(Len(rendered) + 1), selectedText,
                             narrationVoice)))
           /\ UNCHANGED <<calls, order, edits, docVars, inputVars, exportVars, serviceVars>>

removeSnippet(id) ==
    /\ Commit(Without(rendered, id))
    /\ UNCHANGED <<nextId, calls, order, edits, docVars, inputVars, exportVars, serviceVars>>

\* the "Clear All" button: setSnippets([])
ClearAll ==
    /\ Commit(<<>>)
    /\ UNCHANGED <<nextId, calls, order, edits, docVars, inputVars, exportVars, serviceVars>>

\* SectionEditor's name, voice and text fields: onUpdate({...section, [field]: value})
EditSection(id, updates) ==
    /\ id \in Ids(rendered)
    /\ Work < MaxWork
    /\ edits' = edits + 1
    /\ Commit(updateSnippet(Merge(Find(rendered, id), updates)))
    /\ UNCHANGED <<nextId, calls, order, docVars, inputVars, exportVars, serviceVars>>

\* an extraction that tests the selection only for start = end
handleExtractSubsectionOfBlankText(id, start, end) ==
    LET section == Find(rendered, id)
        selectedText == substring(section.text, start, end)
    IN  /\ id \in Ids(rendered)
        /\ start <= end
        /\ end <= Len(section.text)
        /\ \/ /\ start = end
              /\ UNCHANGED vars
           \/ /\ start # end
              /\ Work < MaxWork
              /\ nextId' = nextId + 1
              /\ Commit(updateSnippet([section EXCEPT !.subsections =
                     Append(@, NewSubsection(nextId + 1, PartName(Len(@) + 1), selectedText,
                                             section.voice))]))
              /\ UNCHANGED <<calls, order, edits, docVars, inputVars, exportVars, serviceVars>>

handleExtractSubsection(id, start, end) ==
    LET section == Find(rendered, id)
        selectedText == substring(section.text, start, end)
    IN  /\ id \in Ids(rendered)
        /\ start <= end
        /\ end <= Len(section.text)
        /\ \/ /\ start = end
              /\ UNCHANGED vars
           \/ /\ start # end
              /\ trim(selectedText) = <<>>
              /\ UNCHANGED vars
           \/ /\ start # end
              /\ trim(selectedText) # <<>>
              /\ Work < MaxWork
              /\ nextId' = nextId + 1
              /\ Commit(updateSnippet([section EXCEPT !.subsections =
                     Append(@, NewSubsection(nextId + 1, PartName(Len(@) + 1), selectedText,
                                             section.voice))]))
              /\ UNCHANGED <<calls, order, edits, docVars, inputVars, exportVars, serviceVars>>

updateSubsection(id, subId, updates) ==
    LET section == Find(rendered, id)
    IN  /\ id \in Ids(rendered)
        /\ Work < MaxWork
        /\ edits' = edits + 1
        /\ Commit(updateSnippet([section EXCEPT !.subsections =
               [j \in 1..Len(@) |-> IF @[j].id = subId THEN Merge(@[j], updates) ELSE @[j]]]))
        /\ UNCHANGED <<nextId, calls, order, docVars, inputVars, exportVars, serviceVars>>

deleteSubsection(id, subId) ==
    LET section == Find(rendered, id)
    IN  /\ id \in Ids(rendered)
        /\ Commit(updateSnippet([section EXCEPT !.subsections = Without(@, subId)]))
        /\ UNCHANGED <<nextId, calls, order, edits, docVars, inputVars, exportVars, serviceVars>>

\* the component re-renders with the hook's current state
Render ==
    /\ rendered # snippets
    /\ rendered' = snippets
    /\ UNCHANGED <<snippets, nextId, calls, order, edits, docVars, inputVars, exportVars, serviceVars>>

----------------------------------------------------------------------------
(* Per-node generation: generateSnippet / generateSubsection.  The part up  *)
(* to the await runs in the click's event; the part after it runs when      *)
(* processGeneration settles, outside any event, so the component has not   *)
(* re-rendered yet when it returns.                                         *)

generateSnippet(id) ==
    \/ /\ id \notin Ids(rendered)
       /\ UNCHANGED vars
    \/ /\ id \in Ids(rendered)
       /\ Work < MaxWork
       /\ Commit(SetGenerating(snippets, id))
       /\ calls' = Append(calls, NewCall(id, 0, Find(rendered, id).text, Find(rendered, id).voice))
       /\ UNCHANGED <<nextId, order, edits, docVars, inputVars, exportVars, serviceVars>>

generateSubsection(sectionId, subsectionId) ==
    \/ /\ ~Exists(rendered, sectionId, subsectionId)
       /\ UNCHANGED vars
    \/ /\ Exists(rendered, sectionId, subsectionId)
       /\ Work < MaxWork
       /\ Commit(SubSetGenerating(snippets, sectionId, subsectionId))
       /\ calls' = Append(calls, NewCall(sectionId, subsectionId,
                                         NodeOf(rendered, sectionId, subsectionId).text,
                                         NodeOf(rendered, sectionId, subsectionId).voice))
       /\ UNCHANGED <<nextId, order, edits, docVars, inputVars, exportVars, serviceVars>>

\* processGeneration resolved: the try block's setSnippets
ResolveSuccess(c) ==
    /\ calls[c].pc = "await"
    /\ snippets' = IF calls[c].sub = 0
                   THEN SetSuccess(snippets, calls[c].sec, Blob("wav", c))
                   ELSE SubSetSuccess(snippets, calls[c].sec, calls[c].sub, Blob("wav", c))
    /\ calls' = [calls EXCEPT ![c].pc = "done", ![c].result = "ok"]
    /\ order' = Append(order, c)
    /\ UNCHANGED <<rendered, nextId, edits, docVars, inputVars, exportVars, serviceVars>>

\* processGeneration rejected (synthesis or decode): the catch block's setSnippets
ResolveFailure(c, message) ==
    /\ calls[c].pc = "await"
    /\ snippets' = IF calls[c].sub = 0
                   THEN SetError(snippets, calls[c].sec, message)
                   ELSE SubSetError(snippets, calls[c].sec, calls[c].sub, message)
    /\ calls' = [calls EXCEPT ![c].pc = "done", ![c].result = message]
    /\ order' = Append(order, c)
    /\ UNCHANGED <<rendered, nextId, edits, docVars, inputVars, exportVars, serviceVars>>

----------------------------------------------------------------------------
(* Initial state: the useState initialisers of App *)

SpeakerName(n) == <<"S", "p", "e", "a", "k", "e", "r", " ">> \o NatToChars(n)

DEFAULT_CHARACTERS ==
    << [id |-> 1, name |-> SpeakerName(1), voice |-> "Kore"],
       [id |-> 2, name |-> SpeakerName(2), voice |-> "Puck"] >>

DEFAULT_SCRIPT ==
    << [id |-> 1, characterId |-> 1, text |-> <<"h", "i">>],
       [id |-> 2, characterId |-> 2, text |-> <<"y", "o">>] >>

\* the null of useState<{name, data, mimeType} | null>(null)
NoFile == [name |-> "", data |-> "", mimeType |-> <<>>]

\* JSON.stringify of nothing: the '' of useState<string>('') and of getContentHash's last return
EmptyHash == [kind |-> "", text |-> <<>>, voice |-> "", script |-> <<>>, characters |-> <<>>,
              ref |-> ""]

----------------------------------------------------------------------------
(* Document-level generation and staleness *)

\* a fingerprint of narration that leaves the voice out
getContentHashWithoutVoice ==
    IF mode = "NARRATION"
    THEN [EmptyHash EXCEPT !.kind = "text,voice", !.text = narrationText]
    ELSE IF mode = "DIALOGUE"
    THEN [EmptyHash EXCEPT !.kind = "script,characters", !.script = script,
                           !.characters = characters]
    ELSE IF mode = "CLONING"
    THEN [EmptyHash EXCEPT !.kind = "text,ref", !.text = cloningText,
                           !.ref = IF cloningReference = NoFile THEN "undefined"
                                   ELSE cloningReference.name]
    ELSE EmptyHash

\* getContentHash: JSON.stringify of the mode's tuple.  The record keeps exactly the
\* fields the stringified object has (the others are fixed), so two hashes are equal
\* exactly when the two JSON strings are.
getContentHash ==
    IF mode = "NARRATION"
    THEN [EmptyHash EXCEPT !.kind = "text,voice", !.text = narrationText, !.voice = narrationVoice]
    ELSE IF mode = "DIALOGUE"
    THEN [EmptyHash EXCEPT !.kind = "script,characters", !.script = script,
                           !.characters = characters]
    ELSE IF mode = "CLONING"
    THEN [EmptyHash EXCEPT !.kind = "text,ref", !.text = cloningText,
                           !.ref = IF cloningReference = NoFile THEN "undefined"
                                   ELSE cloningReference.name]
    ELSE EmptyHash

currentContentHash == getContentHash

isStale ==
    /\ generatedAudio # null
    /\ currentContentHash # lastGeneratedHash
    /\ mode # "TRANSCRIPTION"

\* the first validation of handleGenerate that throws, or null when none does
ValidationError ==
    IF mode = "NARRATION" /\ trim(narrationText) = <<>> THEN "Please enter some text."
    ELSE IF mode = "DIALOGUE" /\ Len(script) = 0 THEN "Script cannot be empty."
    ELSE IF mode = "CLONING" /\ trim(cloningText) = <<>>
        THEN "Please enter text for the cloned voice."
    ELSE IF mode = "CLONING" /\ cloningReference = NoFile
        THEN "Please upload a reference audio file."
    ELSE IF mode = "TRANSCRIPTION" /\ transcriptionFile = NoFile
        THEN "Please upload an audio file to transcribe."
    ELSE null

\* the inputs handleGenerate reads in the active mode
Inputs ==
    IF mode = "NARRATION" THEN <<narrationText, narrationVoice>>
    ELSE IF mode = "DIALOGUE" THEN <<script, characters>>
    ELSE IF mode = "CLONING" THEN <<cloningText, cloningReference>>
    ELSE <<transcriptionFile>>

\* a handleGenerate invocation awaiting its collaborator, with what its closure holds;
\* prior is the artifact on display when the button was pressed
NewDocCall ==
    [id |-> docIssued + 1, mode |-> mode, inputs |-> Inputs, hash |-> currentContentHash,
     prior |-> generatedAudio]

\* err.message || "An error occurred during generation."
ErrorText(message) ==
    IF message = "" THEN "An error occurred during generation." ELSE message

DocWork == docIssued + docEdits

\* the invocations still awaiting, without the one at position c
Settle(c) == SubSeq(docCalls, 1, c - 1) \o SubSeq(docCalls, c + 1, Len(docCalls))

docInputs == <<script, characters, cloningText, cloningReference, transcriptionFile,
               docEdits>>

docJobs == <<docCalls, docIssued>>

\* a handleGenerate that leaves the artifact on display while it generates
handleGenerateKeepingArtifact ==
    /\ ValidationError = null
    /\ DocWork < MaxDocWork
    /\ loading' = TRUE
    /\ error' = null
    /\ docCalls' = Append(docCalls, NewDocCall)
    /\ docIssued' = docIssued + 1
    /\ UNCHANGED <<generatedAudio, mode, lastGeneratedHash, transcriptionResult, docInputs,
                   treeVars, exportVars, serviceVars, inputVars>>

handleGenerate ==
    \/ /\ ValidationError # null
       /\ loading' = FALSE
       /\ error' = ValidationError
       /\ generatedAudio' = null
       /\ UNCHANGED <<mode, lastGeneratedHash, transcriptionResult, docCalls, docIssued,
                      docInputs, treeVars, exportVars, serviceVars, inputVars>>
    \/ /\ ValidationError = null
       /\ DocWork < MaxDocWork
       /\ loading' = TRUE
       /\ error' = null
       /\ generatedAudio' = null
       /\ docCalls' = Append(docCalls, NewDocCall)
       /\ docIssued' = docIssued + 1
       /\ UNCHANGED <<mode, lastGeneratedHash, transcriptionResult, docInputs, treeVars, exportVars, serviceVars,
                      inputVars>>

\* a success that records the fingerprint of the inputs as they are when it arrives
DocResolveAudioHashingNow(c) ==
    /\ docCalls[c].mode # "TRANSCRIPTION"
    /\ generatedAudio' = Blob("doc", docCalls[c].id)
    /\ lastGeneratedHash' = getContentHash
    /\ loading' = FALSE
    /\ docCalls' = Settle(c)
    /\ UNCHANGED <<mode, error, transcriptionResult, docIssued, docInputs, treeVars, exportVars,
                   serviceVars, inputVars>>

\* the synthesis collaborator answered and the payload decoded
DocResolveAudio(c) ==
    /\ docCalls[c].mode # "TRANSCRIPTION"
    /\ generatedAudio' = Blob("doc", docCalls[c].id)
    /\ lastGeneratedHash' = docCalls[c].hash
    /\ loading' = FALSE
    /\ docCalls' = Settle(c)
    /\ UNCHANGED <<mode, error, transcriptionResult, docIssued, docInputs, treeVars, exportVars, serviceVars, inputVars>>

\* a transcription path that returns without clearing the loading flag
DocResolveTranscriptStillLoading(c, text) ==
    /\ docCalls[c].mode = "TRANSCRIPTION"
    /\ transcriptionResult' = text
    /\ docCalls' = Settle(c)
    /\ UNCHANGED <<loading, mode, error, generatedAudio, lastGeneratedHash, docIssued,
                   docInputs, treeVars, exportVars, serviceVars, inputVars>>

\* transcribeAudio answered
DocResolveTranscript(c, text) ==
    /\ docCalls[c].mode = "TRANSCRIPTION"
    /\ transcriptionResult' = text
    /\ loading' = FALSE
    /\ docCalls' = Settle(c)
    /\ UNCHANGED <<mode, error, generatedAudio, lastGeneratedHash, docIssued, docInputs,
                   treeVars, exportVars, serviceVars, inputVars>>

\* the collaborator rejected, or the payload did not decode: the catch block
DocResolveFailure(c, message) ==
    /\ error' = ErrorText(message)
    /\ loading' = FALSE
    /\ docCalls' = Settle(c)
    /\ UNCHANGED <<mode, generatedAudio, lastGeneratedHash, transcriptionResult, docIssued,
                   docInputs, treeVars, exportVars, serviceVars, inputVars>>

\* the four mode buttons
SetMode(m) ==
    /\ mode' = m
    /\ generatedAudio' = null
    /\ error' = null
    /\ lastGeneratedHash' = EmptyHash
    /\ UNCHANGED <<loading, transcriptionResult, docJobs, docInputs, treeVars, exportVars, serviceVars, inputVars>>

DocEdit ==
    /\ DocWork < MaxDocWork
    /\ docEdits' = docEdits + 1

setNarrationText(text) ==
    /\ DocEdit
    /\ narrationText' = text
    /\ UNCHANGED <<narrationVoice, mode, loading, error, generatedAudio, lastGeneratedHash,
                   script, characters, cloningText, cloningReference, transcriptionFile,
                   transcriptionResult, docJobs, treeVars, exportVars, serviceVars>>

setNarrationVoice(voice) ==
    /\ DocEdit
    /\ narrationVoice' = voice
    /\ UNCHANGED <<narrationText, mode, loading, error, generatedAudio, lastGeneratedHash,
                   script, characters, cloningText, cloningReference, transcriptionFile,
                   transcriptionResult, docJobs, treeVars, exportVars, serviceVars>>

setCloningText(text) ==
    /\ DocEdit
    /\ cloningText' = text
    /\ UNCHANGED <<mode, loading, error, generatedAudio, lastGeneratedHash, script, characters,
                   cloningReference, transcriptionFile, transcriptionResult, docJobs,
                   treeVars, exportVars, serviceVars, inputVars>>

\* file.type.startsWith('audio/')
IsAudio(file) == Len(file.mimeType) >= 1 /\ file.mimeType[1] = "audio/"

\* handleFileUpload with setCloningReference, once the FileReader has loaded the file
handleCloningUpload(file) ==
    /\ DocEdit
    /\ IF IsAudio(file)
       THEN /\ cloningReference' = file
            /\ error' = null
       ELSE /\ error' = "Please upload a valid audio file."
            /\ UNCHANGED cloningReference
    /\ UNCHANGED <<mode, loading, generatedAudio, lastGeneratedHash, script, characters,
                   cloningText, transcriptionFile, transcriptionResult, docJobs,
                   treeVars, exportVars, serviceVars, inputVars>>

\* the reference's remove button: setCloningReference(null)
clearCloningReference ==
    /\ DocEdit
    /\ cloningReference' = NoFile
    /\ UNCHANGED <<mode, loading, error, generatedAudio, lastGeneratedHash, script, characters,
                   cloningText, transcriptionFile, transcriptionResult, docJobs,
                   treeVars, exportVars, serviceVars, inputVars>>

handleTranscriptionUpload(file) ==
    /\ DocEdit
    /\ transcriptionResult' = <<>>
    /\ IF IsAudio(file)
       THEN /\ transcriptionFile' = file
            /\ error' = null
       ELSE /\ error' = "Please upload a valid audio file."
            /\ UNCHANGED transcriptionFile
    /\ UNCHANGED <<mode, loading, generatedAudio, lastGeneratedHash, script, characters,
                   cloningText, cloningReference, docJobs, treeVars, exportVars, serviceVars, inputVars>>

dialogueFrame == <<mode, loading, error, generatedAudio, lastGeneratedHash, cloningText,
                   cloningReference, transcriptionFile, transcriptionResult, docJobs,
                   treeVars, exportVars, serviceVars, inputVars>>

updateCharacterVoice(id, voice) ==
    /\ DocEdit
    /\ characters' = [i \in 1..Len(characters) |->
                         IF characters[i].id = id THEN [characters[i] EXCEPT !.voice = voice]
                         ELSE characters[i]]
    /\ UNCHANGED <<script, dialogueFrame>>

removeScriptLine(id) ==
    /\ DocEdit
    /\ script' = Without(script, id)
    /\ UNCHANGED <<characters, dialogueFrame>>

updateScriptLine(id, field, value) ==
    /\ DocEdit
    /\ script' = [i \in 1..Len(script) |->
                     IF script[i].id = id
                     THEN [f \in DOMAIN script[i] |-> IF f = field THEN value ELSE script[i][f]]
                     ELSE script[i]]
    /\ UNCHANGED <<characters, dialogueFrame>>

----------------------------------------------------------------------------
(* Specifications *)

Init ==
    /\ snippets = <<>>
    /\ rendered = <<>>
    /\ nextId = 0
    /\ calls = <<>>
    /\ order = <<>>
    /\ edits = 0
    /\ mode = "NARRATION"
    /\ loading = FALSE
    /\ error = null
    /\ generatedAudio = null
    /\ lastGeneratedHash = EmptyHash
    /\ narrationText = DefaultText
    /\ narrationVoice = "Kore"
    /\ script = DEFAULT_SCRIPT
    /\ characters = DEFAULT_CHARACTERS
    /\ cloningText = DefaultText
    /\ cloningReference = NoFile
    /\ transcriptionFile = NoFile
    /\ transcriptionResult = <<>>
    /\ docCalls = <<>>
    /\ docEdits = 0
    /\ docIssued = 0
    /\ appName = <<"M", "y", "A", "p", "p">>
    /\ featureName = <<"T", "u", "t", "o", "r", "i", "a", "l">>
    /\ isZipping = FALSE
    /\ zips = <<>>
    /\ downloads = <<>>
    /\ alerts = 0
    /\ cloneCalls = <<>>

NodeUpdates ==
    {[name |-> n] : n \in NameInputs} \cup {[voice |-> "Puck"]}
        \cup {[text |-> t] : t \in TextInputs}

\* the ids the handlers are called with: those of the sections and subsections on screen
\* or in the state, and one that names no node
SectionIds == Ids(snippets) \cup Ids(rendered) \cup {nextId + 1}

SubsectionIds ==
    UNION {Ids(snippets[i].subsections) : i \in 1..Len(snippets)}
        \cup UNION {Ids(rendered[i].subsections) : i \in 1..Len(rendered)}
        \cup {nextId + 1}

Next ==
    \/ \E sel \in Selections : addSnippetFromSelection(sel[1], sel[2])
    \/ \E id \in SectionIds : removeSnippet(id)
    \/ ClearAll
    \/ \E id \in SectionIds, updates \in NodeUpdates : EditSection(id, updates)
    \/ \E id \in SectionIds, sel \in Selections : handleExtractSubsection(id, sel[1], sel[2])
    \/ \E id \in SectionIds, subId \in SubsectionIds, updates \in NodeUpdates :
          updateSubsection(id, subId, updates)
    \/ \E id \in SectionIds, subId \in SubsectionIds : deleteSubsection(id, subId)
    \/ \E id \in SectionIds : generateSnippet(id)
    \/ \E id \in SectionIds, subId \in SubsectionIds : generateSubsection(id, subId)
    \/ \E c \in 1..Len(calls) : ResolveSuccess(c)
    \/ \E c \in 1..Len(calls), message \in Messages : ResolveFailure(c, message)
    \/ Render

Spec == Init /\ [][Next]_vars

Modes == {"NARRATION", "DIALOGUE", "CLONING", "TRANSCRIPTION"}

\* what the author types into the narration and cloning text areas
DocTextInputs == {<<" ">>}

\* files the author picks: two samples under one name and one that is not audio
Files ==
    {[name |-> "a.wav", data |-> "d1", mimeType |-> <<"audio/", "wav">>],
     [name |-> "a.wav", data |-> "d2", mimeType |-> <<"audio/", "wav">>],
     [name |-> "n.txt", data |-> "d3", mimeType |-> <<"text/", "plain">>]}

Transcripts == {<<"t">>}

\* a rejection with a message and one without
Rejections == {"No audio data returned from Gemini API", ""}

DocNext ==
    \/ handleGenerate
    \/ \E c \in 1..Len(docCalls) : DocResolveAudio(c)
    \/ \E c \in 1..Len(docCalls), text \in Transcripts : DocResolveTranscript(c, text)
    \/ \E c \in 1..Len(docCalls), message \in Rejections : DocResolveFailure(c, message)
    \/ \E m \in Modes : SetMode(m)
    \/ \E text \in DocTextInputs : setNarrationText(text)
    \/ setNarrationVoice("Puck")
    \/ setCloningText(<<"b">>)
    \/ \E file \in Files : handleCloningUpload(file)
    \/ clearCloningReference
    \/ \E file \in Files : file.data # "d2" /\ handleTranscriptionUpload(file)
    \/ updateCharacterVoice(1, "Puck")
    \/ \E id \in Ids(script) : removeScriptLine(id)
    \/ \E id \in Ids(script) : updateScriptLine(id, "text", <<"b">>)

DocSpec == Init /\ [][DocNext]_vars

----------------------------------------------------------------------------
(* Properties of per-node generation *)

\* the status, artifact and error message a generation job writes
JobFields(node) == <<node.status, node.audio, node.error>>

\* the author's fields of a node
AuthorFields(node) == <<node.name, node.text, node.voice>>

SameNode(c, d) == calls[c].sec = calls[d].sec /\ calls[c].sub = calls[d].sub

\* call c resolves in this step
Resolves(c) == calls[c].pc = "await" /\ calls'[c].pc = "done"

\* C1: in every reachable state, overlapping generate calls on one node included, every
\* section and subsection whose status is Success has an artifact and no error message.
C1_SuccessHasArtifactAndNoError ==
    \A n \in Nodes(snippets) :
        NodeOf(snippets, n[1], n[2]).status = "success"
            => /\ NodeOf(snippets, n[1], n[2]).audio # null
               /\ NodeOf(snippets, n[1], n[2]).error = null

\* C2: when a call on a node resolves after a call issued later on the same node has
\* already resolved, the node is left in exactly the state the resolving call produces:
\* Success with that call's artifact and no error message, or Error with that call's
\* message and the artifact the node held before.
C2_LastResolverWins ==
    [][\A c \in 1..Len(calls) :
          ( /\ Resolves(c)
            /\ Exists(snippets, calls[c].sec, calls[c].sub)
            /\ \E d \in (c + 1)..Len(calls) : SameNode(c, d) /\ calls[d].pc = "done" )
          => LET before == NodeOf(snippets, calls[c].sec, calls[c].sub)
                 after == NodeOf(snippets', calls[c].sec, calls[c].sub)
             IN  IF calls'[c].result = "ok"
                 THEN JobFields(after) = <<"success", Blob("wav", c), null>>
                 ELSE JobFields(after) = <<"error", before.audio, calls'[c].result>>
      ]_vars

\* the edges of the documented state machine
StatusEdges ==
    {<<"idle", "generating">>, <<"generating", "success">>, <<"generating", "error">>,
     <<"success", "generating">>, <<"error", "generating">>}

Settled == {"success", "error"}

\* the nodes present before and after the step
Surviving == Nodes(snippets) \cap Nodes(snippets')

\* C3 as stated: no step of any operation changes a node's status except along
\* Idle->Generating, Generating->Success, Generating->Error, Success->Generating and
\* Error->Generating.
C3_OnlyDocumentedEdges ==
    [][\A n \in Surviving :
          LET a == NodeOf(snippets, n[1], n[2]).status
              b == NodeOf(snippets', n[1], n[2]).status
          IN  a = b \/ <<a, b>> \in StatusEdges
      ]_vars

\* C3 amended: a node's status changes only along the documented edges, except that,
\* once two calls on one node have overlapped, the completion of the later-resolving call,
\* or an author operation that writes back the snapshot rendered before that completion,
\* may take the node from Success or Error straight to Success or Error; no step returns
\* a node to Idle.
C3_EdgesOrOverlappingCompletion ==
    [][\A n \in Surviving :
          LET a == NodeOf(snippets, n[1], n[2]).status
              b == NodeOf(snippets', n[1], n[2]).status
              done == {c \in 1..Len(calls') :
                          <<calls'[c].sec, calls'[c].sub>> = n /\ calls'[c].pc = "done"}
          IN  \/ a = b
              \/ <<a, b>> \in StatusEdges
              \/ /\ a \in Settled
                 /\ b \in Settled
                 /\ Cardinality(done) >= 2
                 /\ \/ \E c \in done : Resolves(c)
                    \/ /\ calls' = calls
                       /\ Exists(rendered, n[1], n[2])
                       /\ NodeOf(rendered, n[1], n[2]).status = b
      ]_vars

\* C3 witness: a node went from Error straight to Success: its earlier-resolving call
\* failed, its later-resolving call succeeded and the node shows that success.
C3_Witness ==
    \E c \in 1..Len(calls), d \in 1..Len(calls) :
        /\ Len(order) >= 2
        /\ order[Len(order) - 1] = d
        /\ order[Len(order)] = c
        /\ SameNode(c, d)
        /\ calls[d].result \in Messages
        /\ calls[c].result = "ok"
        /\ Exists(snippets, calls[c].sec, calls[c].sub)
        /\ NodeOf(snippets, calls[c].sec, calls[c].sub).status = "success"

\* the step is an author edit of a section: a name, text or voice change of the section
\* or of a subsection, a subsection extraction, or a subsection deletion
SectionEditStep ==
    /\ calls' = calls
    /\ Ids(snippets') = Ids(snippets)
    /\ \/ edits' = edits + 1
       \/ nextId' = nextId + 1
       \/ \E id \in Ids(snippets) :
             Len(Find(snippets', id).subsections) < Len(Find(snippets, id).subsections)

\* C4: author edits and generation jobs never conflict: an edit of a section (name, text
\* or voice change, subsection extraction, update or deletion) leaves the status, artifact
\* and error message of every surviving node as the jobs wrote them, and a job's write
\* leaves every node's name, text and voice and every section's children as the author
\* made them.
C4_EditsAndJobsDoNotConflict ==
    [][/\ SectionEditStep
            => \A n \in Surviving :
                  JobFields(NodeOf(snippets', n[1], n[2])) = JobFields(NodeOf(snippets, n[1], n[2]))
       /\ (\E c \in 1..Len(calls) : Resolves(c))
            => /\ Nodes(snippets') = Nodes(snippets)
               /\ \A n \in Surviving :
                     AuthorFields(NodeOf(snippets', n[1], n[2]))
                         = AuthorFields(NodeOf(snippets, n[1], n[2]))
      ]_vars

\* C5: generate on a node whose text is empty or whitespace-only fails before the synthesis
\* collaborator is called: no call is ever issued with blank text.
C5_NoCallOnBlankText ==
    \A c \in 1..Len(calls) : trim(calls[c].text) # <<>>

\* C6: a call that resolves with a failure on a node that still exists leaves the node in
\* status Error with that failure's message and the artifact it held just before; and in
\* every reachable state a node in status Error has an error message.
C6_FailureRecordedOnNode ==
    /\ [](\A n \in Nodes(snippets) :
             NodeOf(snippets, n[1], n[2]).status = "error"
                 => NodeOf(snippets, n[1], n[2]).error \in Messages)
    /\ [][\A c \in 1..Len(calls) :
             ( /\ Resolves(c)
               /\ calls'[c].result # "ok"
               /\ Exists(snippets, calls[c].sec, calls[c].sub) )
             => LET before == NodeOf(snippets, calls[c].sec, calls[c].sub)
                    after == NodeOf(snippets', calls[c].sec, calls[c].sub)
                IN  /\ calls'[c].result \in Messages
                    /\ JobFields(after) = <<"error", before.audio, calls'[c].result>>
         ]_vars

\* C6 witness: a failure was recorded on a node that already held an artifact
C6_Witness ==
    \E n \in Nodes(snippets) :
        /\ NodeOf(snippets, n[1], n[2]).status = "error"
        /\ NodeOf(snippets, n[1], n[2]).error \in Messages
        /\ NodeOf(snippets, n[1], n[2]).audio # null

----------------------------------------------------------------------------
(* Properties of document-level generation and staleness *)

\* the messages a collaborator failure can leave in error
FailureTexts == {ErrorText(message) : message \in Rejections}

C8_RejectionLeavesDocumentUntouched ==
    [][ValidationError # null /\ handleGenerate =>
           /\ docCalls' = docCalls
           /\ docIssued' = docIssued
           /\ generatedAudio' = generatedAudio
           /\ lastGeneratedHash' = lastGeneratedHash]_vars

StaleModes == {"NARRATION", "DIALOGUE", "CLONING"}

\* the tracked fields of the active mode: free text and voice; script and roster; text
\* and the loaded reference sample's name
Tracked ==
    IF mode = "NARRATION" THEN <<narrationText, narrationVoice>>
    ELSE IF mode = "DIALOGUE" THEN <<script, characters>>
    ELSE IF mode = "CLONING" THEN <<cloningText, cloningReference.name>>
    ELSE <<>>

\* C9: in narration, dialogue and cloning modes, when a document generation succeeds
\* and nothing was edited since it was started, isStale is false (the first generation
\* and every regeneration alike); and an edit that changes a tracked field of a
\* document whose artifact is not stale makes isStale true.
C9_StaleAfterEditFreshAfterGeneration ==
    [][/\ \A c \in 1..Len(docCalls) :
              (/\ DocResolveAudio(c)
               /\ docCalls[c].mode = mode
               /\ docCalls[c].inputs = Inputs) => ~isStale'
       /\ (/\ mode \in StaleModes
           /\ mode' = mode
           /\ generatedAudio # null
           /\ generatedAudio' = generatedAudio
           /\ ~isStale
           /\ Tracked' # Tracked) => isStale']_vars

\* the second generation succeeded on inputs that differ from the initial ones
C9_Witness ==
    /\ mode \in StaleModes
    /\ generatedAudio = Blob("doc", 2)
    /\ ~isStale
    /\ docEdits >= 1
    /\ docCalls = <<>>
    /\ lastGeneratedHash \notin
           {[EmptyHash EXCEPT !.kind = "text,voice", !.text = DefaultText, !.voice = "Kore"],
            [EmptyHash EXCEPT !.kind = "script,characters", !.script = DEFAULT_SCRIPT,
                              !.characters = DEFAULT_CHARACTERS]}

\* C10: staleness has no false negatives: once an artifact exists in a mode that
\* supports staleness, a change of any input of that mode (narration text or voice,
\* script or roster, cloning text or the reference sample with its payload) away from
\* what the artifact was generated from makes isStale true.
C10_NoFalseNegatives ==
    [][(/\ mode \in StaleModes
        /\ mode' = mode
        /\ generatedAudio # null
        /\ generatedAudio' = generatedAudio
        /\ ~isStale
        /\ Inputs' # Inputs) => isStale']_vars

----------------------------------------------------------------------------
(* Progress of per-node generation *)

\* some awaited processGeneration promise settles
Answer ==
    \/ \E c \in 1..Len(calls) : ResolveSuccess(c)
    \/ \E c \in 1..Len(calls), message \in Messages : ResolveFailure(c, message)

\* the collaborators answer every outstanding call and React renders every state update
LiveSpec == Init /\ [][Next]_vars /\ WF_vars(Answer) /\ WF_vars(Render)

IsGenerating(sec, sub) ==
    Exists(snippets, sec, sub) /\ NodeOf(snippets, sec, sub).status = "generating"

\* C11: Generating is never terminal: a node in status Generating is eventually removed
\* or reaches Success or Error, when every outstanding call is eventually answered.
C11_GeneratingIsNeverTerminal ==
    \A sec \in 1..MaxWork, sub \in 0..MaxWork :
        IsGenerating(sec, sub) ~> ~IsGenerating(sec, sub)

----------------------------------------------------------------------------
(* Frame of a per-node generation *)

\* the job fields of a node, blanked
NoJobFields == [status |-> "", audio |-> null, error |-> null]

\* the tree with the status, artifact and error message of one node blanked
BlankJobFields(tree, sec, sub) ==
    [i \in 1..Len(tree) |->
        IF tree[i].id # sec THEN tree[i]
        ELSE IF sub = 0
        THEN [f \in DOMAIN tree[i] |->
                 IF f \in DOMAIN NoJobFields THEN NoJobFields[f] ELSE tree[i][f]]
        ELSE [tree[i] EXCEPT !.subsections =
                 [j \in 1..Len(tree[i].subsections) |->
                     IF tree[i].subsections[j].id # sub THEN tree[i].subsections[j]
                     ELSE [f \in DOMAIN tree[i].subsections[j] |->
                              IF f \in DOMAIN NoJobFields THEN NoJobFields[f]
                              ELSE tree[i].subsections[j][f]]]]]

\* the step starts the call that becomes calls'[c]
Starts(c) == c = Len(calls) + 1 /\ Len(calls') = c

\* C12: the start and the completion of a generate call on a node change nothing but
\* that node's status, artifact and error message: every other section and subsection,
\* the calls in flight on them, the node's name, text, voice and children, and the
\* document's artifact, error and baseline are as before.
C12_GenerateTouchesOnlyItsNode ==
    [][\A c \in 1..Len(calls') :
          (Starts(c) \/ (c <= Len(calls) /\ Resolves(c)))
          => /\ BlankJobFields(snippets', calls'[c].sec, calls'[c].sub)
                    = BlankJobFields(snippets, calls'[c].sec, calls'[c].sub)
             /\ \A d \in 1..Len(calls) : d # c => calls'[d] = calls[d]
             /\ generatedAudio' = generatedAudio
             /\ error' = error
             /\ lastGeneratedHash' = lastGeneratedHash
      ]_vars

\* a call on a subsection succeeded, and its section, which no call was made on, is idle
C12_Witness ==
    \E c \in 1..Len(calls) :
        /\ calls[c].sub # 0
        /\ calls[c].result = "ok"
        /\ Exists(snippets, calls[c].sec, calls[c].sub)
        /\ NodeOf(snippets, calls[c].sec, calls[c].sub).status = "success"
        /\ NodeOf(snippets, calls[c].sec, 0).status = "idle"

----------------------------------------------------------------------------
(* Resolution for a node that is gone *)

\* C13: when a generate call resolves, with success or failure, for a section or
\* subsection that was deleted or cleared while the call was in flight, the tree is
\* unchanged; and a node only ever appears in the tree under a fresh id, so a deleted node
\* is never re-created.
C13_ResolutionForDeletedNodeIsDiscarded ==
    [][/\ \A c \in 1..Len(calls) :
              (Resolves(c) /\ ~Exists(snippets, calls[c].sec, calls[c].sub))
              => snippets' = snippets /\ rendered' = rendered
       /\ \A n \in Nodes(snippets') \ Nodes(snippets) :
              /\ nextId' = nextId + 1
              /\ IF n[2] = 0 THEN n[1] = nextId' ELSE n[2] = nextId'
      ]_vars

\* a call succeeded for a section that is gone, while another section is in the tree
C13_Witness ==
    \E c \in 1..Len(calls) :
        /\ calls[c].result = "ok"
        /\ calls[c].sec \notin Ids(snippets)
        /\ snippets # <<>>

----------------------------------------------------------------------------
(* File names: generateFileName of TableOfContents *)

\* [a-zA-Z0-9-_]
NameChars ==
    {"a", "b", "c", "d", "e", "f", "g", "h", "i", "j", "k", "l", "m", "n", "o", "p", "q",
     "r", "s", "t", "u", "v", "w", "x", "y", "z",
     "A", "B", "C", "D", "E", "F", "G", "H", "I", "J", "K", "L", "M", "N", "O", "P", "Q",
     "R", "S", "T", "U", "V", "W", "X", "Y", "Z",
     "0", "1", "2", "3", "4", "5", "6", "7", "8", "9", "-", "_"}

\* the text without its leading whitespace
RECURSIVE SkipWhitespace(_)
SkipWhitespace(t) ==
    IF t # <<>> /\ Head(t) \in Whitespace THEN SkipWhitespace(Tail(t)) ELSE t

\* replace(/\s+/g, '-')
RECURSIVE HyphenateWhitespace(_)
HyphenateWhitespace(t) ==
    IF t = <<>> THEN <<>>
    ELSE IF Head(t) \in Whitespace THEN <<"-">> \o HyphenateWhitespace(SkipWhitespace(t))
    ELSE <<Head(t)>> \o HyphenateWhitespace(Tail(t))

\* a stripping that lets the dot through
StripOtherCharsButDots(t) == SelectSeq(t, LAMBDA ch : ch \in NameChars \cup {"."})

\* replace(/[^a-zA-Z0-9-_]/g, '')
StripOtherChars(t) == SelectSeq(t, LAMBDA ch : ch \in NameChars)

\* Array.prototype.join
RECURSIVE join(_, _)
join(parts, separator) ==
    IF parts = <<>> THEN <<>>
    ELSE IF Len(parts) = 1 THEN parts[1]
    ELSE parts[1] \o separator \o join(Tail(parts), separator)

\* a generateFileName that hyphenates every whitespace character
generateFileNameHyphenatingEach(parts) ==
    LET kept == SelectSeq(parts, LAMBDA part : trim(part) # <<>>)
        mapped == [i \in 1..Len(kept) |->
                      StripOtherChars([k \in 1..Len(trim(kept[i])) |->
                          IF trim(kept[i])[k] \in Whitespace THEN "-" ELSE trim(kept[i])[k]])]
    IN  join(mapped, <<"-">>)

generateFileName(parts) ==
    LET kept == SelectSeq(parts, LAMBDA part : trim(part) # <<>>)
        mapped == [i \in 1..Len(kept) |-> StripOtherChars(HyphenateWhitespace(trim(kept[i])))]
    IN  join(mapped, <<"-">>)

----------------------------------------------------------------------------
(* Export: handleDownloadAll of TableOfContents *)

\* the concatenation of a sequence of sequences
RECURSIVE Flatten(_)
Flatten(seqs) == IF seqs = <<>> THEN <<>> ELSE Head(seqs) \o Flatten(Tail(seqs))

\* generateFileName([...]) + '.wav'
WavName(parts) == generateFileName(parts) \o <<".wav">>

\* the rootFolder.file(name, blob) calls of one section, in the order the loops make them
SectionFiles(snippet) ==
    (IF snippet.audio # null
     THEN <<[name |-> WavName(<<appName, featureName, snippet.name>>),
             content |-> snippet.audio]>>
     ELSE <<>>)
    \o Flatten([j \in 1..Len(snippet.subsections) |->
                   IF snippet.subsections[j].audio # null
                   THEN <<[name |-> WavName(<<appName, featureName, snippet.name,
                                              snippet.subsections[j].name>>),
                           content |-> snippet.subsections[j].audio]>>
                   ELSE <<>>])

FileCalls(tree) == Flatten([i \in 1..Len(tree) |-> SectionFiles(tree[i])])

\* JSZip: file(name, data) adds the entry, or replaces the entry of that name
PutFile(files, name, content) ==
    [n \in DOMAIN files \cup {name} |-> IF n = name THEN content ELSE files[n]]

RECURSIVE PutFiles(_, _)
PutFiles(files, fileCalls) ==
    IF fileCalls = <<>> THEN files
    ELSE PutFiles(PutFile(files, Head(fileCalls).name, Head(fileCalls).content),
                  Tail(fileCalls))

\* `${i + 1}. ${snippet.name} (${snippet.voice})`
SectionLine(n, snippet) ==
    NatToChars(n) \o <<".", " ">> \o snippet.name \o <<" ", "(", snippet.voice, ")">>

\* a subsection line numbered without its section
SubsectionLineNumberedAlone(n, m, sub) ==
    <<" ", " ", " ">> \o NatToChars(m) \o <<".", " ">>
        \o sub.name \o <<" ", "(", sub.voice, ")">>

\* `   ${i + 1}.${j + 1}. ${sub.name} (${sub.voice})`
SubsectionLine(n, m, sub) ==
    <<" ", " ", " ">> \o NatToChars(n) \o <<".">> \o NatToChars(m) \o <<".", " ">>
        \o sub.name \o <<" ", "(", sub.voice, ")">>

\* the lines of `# ${appName} - ${featureName}\n\nGenerated: ...\n\n## Structure\n\n`
ManifestHead ==
    << <<"#", " ">> \o appName \o <<" ", "-", " ">> \o featureName, <<>>,
       <<"Generated: ", "now">>, <<>>, <<"## Structure">>, <<>> >>

\* markdownContent, as the sequence of its lines
markdownContent(tree) ==
    ManifestHead \o
    Flatten([i \in 1..Len(tree) |->
                <<SectionLine(i, tree[i])>>
                \o [j \in 1..Len(tree[i].subsections) |->
                       SubsectionLine(i, j, tree[i].subsections[j])]
                \o << <<>> >>])

StructureName == <<"structure.md">>

\* everything one attempt puts into the folder
ZipFiles(tree) ==
    PutFile(PutFiles(<<>>, FileCalls(tree)), StructureName, markdownContent(tree))

\* a handleDownloadAll invocation that got past its guard, with the zip it built
NewZip(tree, pc) ==
    [folderName |-> generateFileName(<<appName, featureName>>), files |-> ZipFiles(tree),
     tree |-> tree, pc |-> pc]

\* an invocation that returned at the guard: no zip was made
ReturnedZip ==
    [folderName |-> <<>>, files |-> <<>>, tree |-> <<>>, pc |-> "returned"]

handleDownloadAll ==
    \/ /\ Len(rendered) = 0
       /\ Len(zips) < MaxExports
       /\ zips' = Append(zips, ReturnedZip)
       /\ UNCHANGED <<appName, featureName, isZipping, downloads, alerts, treeVars, docVars, inputVars, serviceVars>>
    \/ /\ Len(rendered) # 0
       /\ Len(zips) < MaxExports
       /\ isZipping' = TRUE
       /\ zips' = Append(zips, NewZip(rendered, "await"))
       /\ UNCHANGED <<appName, featureName, downloads, alerts, treeVars, docVars, inputVars, serviceVars>>
    \/ \* zip.folder gave nothing: "Could not create zip folder", caught at once
       /\ Len(rendered) # 0
       /\ Len(zips) < MaxExports
       /\ isZipping' = FALSE
       /\ alerts' = alerts + 1
       /\ zips' = Append(zips, NewZip(rendered, "failed"))
       /\ UNCHANGED <<appName, featureName, downloads, treeVars, docVars, inputVars, serviceVars>>

\* zip.generateAsync resolved: the anchor is clicked
ZipResolve(z) ==
    /\ zips[z].pc = "await"
    /\ zips' = [zips EXCEPT ![z].pc = "delivered"]
    /\ downloads' = Append(downloads, [download |-> zips[z].folderName \o <<".zip">>,
                                       folder |-> zips[z].folderName,
                                       files |-> zips[z].files])
    /\ isZipping' = FALSE
    /\ UNCHANGED <<appName, featureName, alerts, treeVars, docVars, inputVars, serviceVars>>

\* zip.generateAsync rejected: the catch block
ZipReject(z) ==
    /\ zips[z].pc = "await"
    /\ zips' = [zips EXCEPT ![z].pc = "failed"]
    /\ alerts' = alerts + 1
    /\ isZipping' = FALSE
    /\ UNCHANGED <<appName, featureName, downloads, treeVars, docVars, inputVars, serviceVars>>

\* the names the author has given to nodes, the app and the feature
ExportNames == {<<"I", "n", "t", "r", "o">>, <<"I", "n", "t", "r", "o", "!">>}
AppNames == {<<"M", "y", " ", "A", "p", "p">>, <<" ">>}

\* a node as the editor and the generation jobs leave it
ExportNode(id, name, hasAudio) ==
    [id |-> id, name |-> name, text |-> DefaultText, voice |-> "Kore",
     audio |-> IF hasAudio THEN Blob("wav", id) ELSE null,
     status |-> IF hasAudio THEN "success" ELSE "idle", error |-> null]

\* the subsections of the section at position i: none, one that has been generated, or
\* two that have not
ExportSubsections(i) ==
    {<<>>,
     <<ExportNode(MaxSections + i, <<"I", "n", "t", "r", "o">>, TRUE)>>,
     <<ExportNode(MaxSections + i, <<"I", "n", "t", "r", "o">>, FALSE),
       ExportNode(2 * MaxSections + i, <<"P", "a", "r", "t", " ", "2">>, FALSE)>>}

\* the sections at position i of a tree
ExportSections(i) ==
    {[f \in DOMAIN ExportNode(i, name, hasAudio) \cup {"subsections"} |->
         IF f = "subsections" THEN subs ELSE ExportNode(i, name, hasAudio)[f]] :
        name \in ExportNames, hasAudio \in BOOLEAN, subs \in ExportSubsections(i)}

\* the trees of n sections
RECURSIVE TreesOf(_)
TreesOf(n) ==
    IF n = 0 THEN {<<>>}
    ELSE {Append(t, sec) : t \in TreesOf(n - 1), sec \in ExportSections(n)}

\* the trees of up to MaxSections sections
ExportTrees == UNION {TreesOf(n) : n \in 0..MaxSections}

\* App and TableOfContents once the author has built a tree and named the project
ExportInit ==
    /\ snippets \in ExportTrees
    /\ rendered = snippets
    /\ nextId = 3 * MaxSections
    /\ calls = <<>>
    /\ order = <<>>
    /\ edits = 0
    /\ mode = "NARRATION"
    /\ loading = FALSE
    /\ error = null
    /\ generatedAudio = null
    /\ lastGeneratedHash = EmptyHash
    /\ narrationText = DefaultText
    /\ narrationVoice = "Kore"
    /\ script = DEFAULT_SCRIPT
    /\ characters = DEFAULT_CHARACTERS
    /\ cloningText = DefaultText
    /\ cloningReference = NoFile
    /\ transcriptionFile = NoFile
    /\ transcriptionResult = <<>>
    /\ docCalls = <<>>
    /\ docEdits = 0
    /\ docIssued = 0
    /\ appName \in AppNames
    /\ featureName = <<"T", "u", "t", "o", "r", "i", "a", "l">>
    /\ isZipping = FALSE
    /\ zips = <<>>
    /\ downloads = <<>>
    /\ alerts = 0
    /\ cloneCalls = <<>>

ExportNext ==
    \/ handleDownloadAll
    \/ \E z \in 1..Len(zips) : ZipResolve(z)
    \/ \E z \in 1..Len(zips) : ZipReject(z)

ExportSpec == ExportInit /\ [][ExportNext]_vars

----------------------------------------------------------------------------
(* Properties of the export *)

\* the nodes of a tree that hold an artifact
Holders(tree) == {n \in Nodes(tree) : NodeOf(tree, n[1], n[2]).audio # null}

\* the name of the bundle member of a node
MemberName(tree, n) ==
    IF n[2] = 0 THEN WavName(<<appName, featureName, NodeOf(tree, n[1], 0).name>>)
    ELSE WavName(<<appName, featureName, NodeOf(tree, n[1], 0).name,
                   NodeOf(tree, n[1], n[2]).name>>)

AudioMembers(files) == DOMAIN files \ {StructureName}

\* C14: every export holds exactly one audio member per node holding an artifact: the
\* number of audio members equals the number of sections and subsections with an artifact,
\* and each such node's artifact is the content of the member carrying its name.
C14_OneMemberPerArtifact ==
    \A z \in 1..Len(zips) :
        /\ Cardinality(AudioMembers(zips[z].files)) = Cardinality(Holders(zips[z].tree))
        /\ \A n \in Holders(zips[z].tree) :
               /\ MemberName(zips[z].tree, n) \in DOMAIN zips[z].files
               /\ zips[z].files[MemberName(zips[z].tree, n)]
                      = NodeOf(zips[z].tree, n[1], n[2]).audio

\* the attempt z ends in this step
Ends(z) ==
    /\ zips'[z].pc # "await"
    /\ z <= Len(zips) => zips[z].pc = "await"

\* the bundle holds the manifest and a member for every node with an artifact
Complete(bundle, tree) ==
    /\ StructureName \in DOMAIN bundle.files
    /\ bundle.files[StructureName] # <<>>
    /\ \A n \in Holders(tree) : MemberName(tree, n) \in DOMAIN bundle.files

\* the attempt z ended as a whole: one bundle with everything in it and no error, or
\* an error and no bundle
AtomicEnd(z) ==
    \/ /\ zips'[z].pc = "delivered"
       /\ Len(downloads') = Len(downloads) + 1
       /\ SubSeq(downloads', 1, Len(downloads)) = downloads
       /\ Complete(downloads'[Len(downloads')], zips'[z].tree)
       /\ alerts' = alerts
    \/ /\ zips'[z].pc # "delivered"
       /\ downloads' = downloads
       /\ alerts' = alerts + 1

\* C15: export is atomic: every export attempt ends either with exactly one bundle
\* handed to the browser, holding every audio member and the manifest, and no error, or
\* with an error dialog and no bundle; a bundle is never handed over in any other step.
C15_ExportIsAtomic ==
    [][/\ \A z \in 1..Len(zips') : Ends(z) => AtomicEnd(z)
       /\ downloads' # downloads => \E z \in 1..Len(zips') : Ends(z)
      ]_vars

\* C16: an export attempt on a tree without sections ends with an error dialog and no
\* bundle.
C16_EmptyExportSurfacesError ==
    [][\A z \in 1..Len(zips') :
           Ends(z) /\ zips'[z].pc = "returned" => alerts' = alerts + 1 /\ downloads' = downloads
      ]_vars

\* line begins with prefix
StartsWith(line, prefix) ==
    /\ Len(line) >= Len(prefix)
    /\ SubSeq(line, 1, Len(prefix)) = prefix

\* where the group of section i starts in the outline: after the groups before it, each
\* one section line, its subsection lines and a blank line
RECURSIVE GroupStart(_, _)
GroupStart(tree, i) ==
    IF i = 1 THEN 1 ELSE GroupStart(tree, i - 1) + Len(tree[i - 1].subsections) + 2

\* the manifest lines below the heading
Outline(files) ==
    SubSeq(files[StructureName], Len(ManifestHead) + 1, Len(files[StructureName]))

\* C17: the zip of every attempt on a tree with sections holds a manifest, whatever
\* artifacts exist (with none, the zip has the manifest and no audio member); below the
\* heading the manifest has, for section i of n in tree order, a line "i. <name>",
\* directly followed by one line "   i.j. <name>" per subsection j in order, and then a
\* blank line, and nothing else.
C17_ManifestListsEveryNode ==
    \A z \in 1..Len(zips) :
        zips[z].pc # "returned" =>
            LET tree == zips[z].tree
                files == zips[z].files
            IN  /\ tree # <<>>
                /\ StructureName \in DOMAIN files
                /\ Holders(tree) = {} => DOMAIN files = {StructureName}
                /\ Len(Outline(files)) = GroupStart(tree, Len(tree) + 1) - 1
                /\ \A i \in 1..Len(tree) :
                       LET g == GroupStart(tree, i)
                           subs == tree[i].subsections
                       IN  /\ StartsWith(Outline(files)[g],
                                         NatToChars(i) \o <<".", " ">> \o tree[i].name)
                           /\ \A j \in 1..Len(subs) :
                                  StartsWith(Outline(files)[g + j],
                                             <<" ", " ", " ">> \o NatToChars(i) \o <<".">>
                                                 \o NatToChars(j) \o <<".", " ">>
                                                 \o subs[j].name)
                           /\ Outline(files)[g + Len(subs) + 1] = <<>>

\* a bundle was delivered for a tree of two sections with subsections and no artifact
C17_Witness ==
    \E z \in 1..Len(zips) :
        /\ zips[z].pc = "delivered"
        /\ Len(zips[z].tree) = 2
        /\ Len(zips[z].tree[2].subsections) = 2
        /\ Holders(zips[z].tree) = {}
        /\ \E d \in 1..Len(downloads) : downloads[d].files = zips[z].files

----------------------------------------------------------------------------
(* Properties of extraction and naming *)

\* the step extracts a subsection into section id: the section's last child is new
ExtractsInto(id) ==
    /\ nextId' = nextId + 1
    /\ id \in Ids(snippets) \cap Ids(snippets')
    /\ Find(snippets', id).subsections # <<>>
    /\ Find(snippets', id).subsections[Len(Find(snippets', id).subsections)].id = nextId'

\* the section without its last child
WithoutLastChild(section) ==
    [section EXCEPT !.subsections = SubSeq(@, 1, Len(@) - 1)]

\* C18: extracting a subsection changes nothing but the parent's children, which gain
\* one subsection at the end: the parent's text, name, voice, status, artifact and error
\* message, its existing subsections and their order, and every other section are as
\* they were.
C18_ExtractionOnlyAppendsAChild ==
    [][\A id \in Ids(snippets) :
           ExtractsInto(id) =>
               /\ Len(snippets') = Len(snippets)
               /\ \A i \in 1..Len(snippets) :
                      IF snippets[i].id = id
                      THEN WithoutLastChild(snippets'[i]) = snippets[i]
                      ELSE snippets'[i] = snippets[i]
      ]_vars

\* the texts a selection of text can give that is neither empty nor blank
ValidSelectionsOf(text) ==
    {substring(text, start, end) : start \in 0..Len(text), end \in 0..Len(text)}
        \ {t \in Seq({" ", "\t", "\n"}) : Len(t) <= Len(text)}

\* the step creates the node new: it is in the tree after the step under the fresh id
Creates(new) ==
    /\ nextId' = nextId + 1
    /\ new.id = nextId'
    /\ \E n \in Nodes(snippets') : NodeOf(snippets', n[1], n[2]) = new

\* the nodes of both trees, as records
AllNodes ==
    {NodeOf(snippets, n[1], n[2]) : n \in Nodes(snippets)}
        \cup {NodeOf(snippets', n[1], n[2]) : n \in Nodes(snippets')}

CreatedSections == {i \in 1..Len(snippets') : snippets'[i].id \notin Ids(snippets)}

\* C20: the number in an auto-generated name "Section N" is never reused: a section is
\* never created under a name that another section was created with.  Checked against the
\* sections still in the tree (a name reading "Section N" is the one its section was
\* created with, the author's renamings give other names).
C20_SectionNumberNeverReused ==
    [][\A i \in CreatedSections :
           /\ \E n \in 1..(nextId + 1) : snippets'[i].name = SectionName(n)
           /\ \A k \in 1..Len(snippets) : snippets[k].name # snippets'[i].name
      ]_vars

----------------------------------------------------------------------------
(* Properties of updates, deletions and ids *)

\* the ids of all subsections of a tree
SubIds(tree) == UNION {Ids(tree[i].subsections) : i \in 1..Len(tree)}

\* the ids that name no section, and no subsection, of the tree in the state or on screen
AbsentSectionIds == SectionIds \ (Ids(snippets) \cup Ids(rendered))
AbsentSubsectionIds == SubsectionIds \ (SubIds(snippets) \cup SubIds(rendered))

\* C21: updating or deleting with an id that names no node changes nothing: removeSnippet
\* and updateSnippet with an absent section id, and updateSubsection and deleteSubsection
\* with an absent subsection id, leave every section and subsection, and their order, as
\* they were.
C21_AbsentIdIsNoOp ==
    [][/\ \A id \in AbsentSectionIds :
              /\ removeSnippet(id) => snippets' = snippets
              /\ Commit(updateSnippet(NewSnippet(id, <<>>, <<>>, "Kore"))) => snippets' = snippets
       /\ \A id \in SectionIds, subId \in AbsentSubsectionIds :
              /\ deleteSubsection(id, subId) => snippets' = snippets
              /\ \A updates \in NodeUpdates :
                     updateSubsection(id, subId, updates) => snippets' = snippets
      ]_vars

\* the nodes of a tree and where they are: each section's id with the ids of its
\* subsections, in order
Shape(tree) ==
    [i \in 1..Len(tree) |->
        <<tree[i].id, [j \in 1..Len(tree[i].subsections) |-> tree[i].subsections[j].id]>>]

\* the sections holding the subsection subId
ParentsOf(tree, subId) == {i \in 1..Len(tree) : subId \in Ids(tree[i].subsections)}

\* C22: deleting a section removes it and all its subsections and no other node;
\* deleting a subsection removes that subsection and no other node; and in every state
\* every subsection belongs to exactly one section of the tree, so no subsection outlives
\* its section.
C22_DeletionCascadesAndNothingElse ==
    /\ [](\A subId \in SubIds(snippets) : Cardinality(ParentsOf(snippets, subId)) = 1)
    /\ [][LET before == Shape(snippets)
              after == Shape(snippets')
          IN  /\ \A id \in SectionIds :
                     removeSnippet(id) => after = SelectSeq(before, LAMBDA s : s[1] # id)
              /\ \A id \in Ids(rendered), subId \in SubsectionIds :
                     deleteSubsection(id, subId) =>
                         after = [i \in 1..Len(before) |->
                                     IF before[i][1] = id
                                     THEN <<id, SelectSeq(before[i][2], LAMBDA s : s # subId)>>
                                     ELSE before[i]]
         ]_vars

\* section 1 and its subsection 2, for which a call was made, are gone, and section 3,
\* created after them, is still there
C22_Witness ==
    /\ Ids(snippets) = {3}
    /\ \E c \in 1..Len(calls) : calls[c].sec = 1 /\ calls[c].sub = 2

\* the ids of all nodes of a tree, sections and subsections together
NodeIds(tree) == Ids(tree) \cup SubIds(tree)

\* the number of nodes of a tree
RECURSIVE NodeCount(_)
NodeCount(tree) ==
    IF tree = <<>> THEN 0 ELSE 1 + Len(Head(tree).subsections) + NodeCount(Tail(tree))

\* C23: node ids are unique for the project's lifetime: in every state no two nodes,
\* sections and subsections together, share an id, and a node that a step creates gets
\* an id that no node had before, deleted nodes included (every id handed out so far is
\* at most nextId).
C23_NodeIdsAreUnique ==
    /\ [](/\ Cardinality(NodeIds(snippets)) = NodeCount(snippets)
          /\ \A id \in NodeIds(snippets) : id <= nextId)
    /\ [][\A id \in NodeIds(snippets') \ NodeIds(snippets) : id > nextId]_vars

\* a subsection was deleted and another one created after it, next to its section
C23_Witness ==
    /\ nextId = 3
    /\ Ids(snippets) = {1}
    /\ SubIds(snippets) = {3}

----------------------------------------------------------------------------
(* File names over all names: the export of a small tree under every app    *)
(* name of up to MaxNameLen characters                                      *)

\* the characters the author types into a name: a letter, two kinds of whitespace, a
\* character that is stripped and the hyphen
NameAlphabet == {"a", " ", "\t", "!", "-"}

RECURSIVE NamesOfLen(_)
NamesOfLen(n) ==
    IF n = 0 THEN {<<>>}
    ELSE {Append(t, ch) : t \in NamesOfLen(n - 1), ch \in NameAlphabet}

TypedNames == UNION {NamesOfLen(n) : n \in 0..MaxNameLen}

FeatureNames == {<<>>, <<"F", " ", "2">>}

SectionNames == {<<"A", " ", " ", "_">>}

\* one section with an artifact and one subsection with an artifact; the trees of
\* NameInit are this one under each section name, and the empty one
NamedTree(name) ==
    <<[id |-> 1, name |-> name, text |-> DefaultText, voice |-> "Kore",
       audio |-> Blob("wav", 1), status |-> "success", error |-> null,
       subsections |-> <<ExportNode(2, <<"b", ".", "c">>, TRUE)>>]>>

NameInit ==
    /\ snippets \in {<<>>} \cup {NamedTree(name) : name \in SectionNames}
    /\ rendered = snippets
    /\ nextId = 2
    /\ calls = <<>>
    /\ order = <<>>
    /\ edits = 0
    /\ mode = "NARRATION"
    /\ loading = FALSE
    /\ error = null
    /\ generatedAudio = null
    /\ lastGeneratedHash = EmptyHash
    /\ narrationText = DefaultText
    /\ narrationVoice = "Kore"
    /\ script = DEFAULT_SCRIPT
    /\ characters = DEFAULT_CHARACTERS
    /\ cloningText = DefaultText
    /\ cloningReference = NoFile
    /\ transcriptionFile = NoFile
    /\ transcriptionResult = <<>>
    /\ docCalls = <<>>
    /\ docEdits = 0
    /\ docIssued = 0
    /\ appName \in TypedNames
    /\ featureName \in FeatureNames
    /\ isZipping = FALSE
    /\ zips = <<>>
    /\ downloads = <<>>
    /\ alerts = 0
    /\ cloneCalls = <<>>

NameSpec == NameInit /\ [][ExportNext]_vars

\* the reference definition of sanitize, character by character

\* a part is blank when it has no character that is not whitespace
Blank(part) == \A k \in 1..Len(part) : part[k] \in Whitespace

RECURSIVE DropBlankParts(_)
DropBlankParts(parts) ==
    IF parts = <<>> THEN <<>>
    ELSE IF Blank(Head(parts)) THEN DropBlankParts(Tail(parts))
    ELSE <<Head(parts)>> \o DropBlankParts(Tail(parts))

RECURSIVE Trimmed(_)
Trimmed(t) ==
    IF t = <<>> THEN <<>>
    ELSE IF t[1] \in Whitespace THEN Trimmed(Tail(t))
    ELSE IF t[Len(t)] \in Whitespace THEN Trimmed(SubSeq(t, 1, Len(t) - 1))
    ELSE t

\* what the character at position k of t contributes: a whitespace run one hyphen at
\* its first character, an allowed character itself, any other character nothing
Contribution(t, k) ==
    IF t[k] \in Whitespace
    THEN IF k > 1 /\ t[k - 1] \in Whitespace THEN <<>> ELSE <<"-">>
    ELSE IF t[k] \in NameChars THEN <<t[k]>>
    ELSE <<>>

SanitizedPart(part) ==
    Flatten([k \in 1..Len(Trimmed(part)) |-> Contribution(Trimmed(part), k)])

sanitize(parts) ==
    LET kept == DropBlankParts(parts)
    IN  Flatten([i \in 1..Len(kept) |->
                    IF i = 1 THEN SanitizedPart(kept[i])
                    ELSE <<"-">> \o SanitizedPart(kept[i])])

\* the parts lists handleDownloadAll passes for a tree
PartsLists(tree) ==
    {<<appName, featureName>>}
        \cup {<<appName, featureName, tree[i].name>> : i \in 1..Len(tree)}
        \cup UNION {{<<appName, featureName, tree[i].name, tree[i].subsections[j].name>> :
                        j \in 1..Len(tree[i].subsections)} : i \in 1..Len(tree)}

endsWith(t, suffix) ==
    /\ Len(t) >= Len(suffix)
    /\ SubSeq(t, Len(t) - Len(suffix) + 1, Len(t)) = suffix

DotWav == <<".", "w", "a", "v">>

\* AudioPlayer's downloadName: fileName with '.wav', or a time-stamped name when
\* fileName is empty
downloadName(fileName) ==
    IF fileName # <<>>
    THEN IF endsWith(fileName, DotWav) THEN fileName ELSE fileName \o DotWav
    ELSE <<"gemini-speech-", "now">> \o DotWav

\* C25: callers handle the empty sanitizer result: for every choice of names, the base
\* name of the bundle, of its folder, of every audio member and of every single-file
\* download is non-empty.
C25_BaseNamesAreNeverEmpty ==
    /\ \A z \in 1..Len(zips) :
           zips[z].pc # "returned" =>
               /\ zips[z].folderName # <<>>
               /\ <<".wav">> \notin AudioMembers(zips[z].files)
               /\ \A parts \in PartsLists(zips[z].tree) :
                      downloadName(generateFileName(parts)) # DotWav
    /\ \A d \in 1..Len(downloads) : downloads[d].download # <<".zip">>

----------------------------------------------------------------------------
(* The service: generateClonedSpeech and its fallback to generateSingleVoice *)

\* CloningParams
CloneParams ==
    {[text |-> t, referenceAudio |-> "d1", mimeType |-> <<"audio/", "wav">>] :
        t \in {DefaultText, <<"b">>}}

\* the request of attempt 1: the reference audio and the text, to the native audio model
NativeRequest(params) ==
    [model |-> "gemini-2.0-flash-exp", text |-> params.text,
     reference |-> params.referenceAudio, voice |-> null]

\* the request generateSingleVoice({text, voice}) makes
SingleVoiceRequest(text, voice) ==
    [model |-> "gemini-2.5-flash-preview-tts", text |-> text, reference |-> null,
     voice |-> voice]

\* what generateContent does with a request: it resolves with audio data, resolves
\* without any, or rejects with a message
ApiAnswers(data) ==
    {[kind |-> "audio", data |-> data, message |-> null],
     [kind |-> "empty", data |-> null, message |-> null]}
        \cup {[kind |-> "reject", data |-> null, message |-> m] : m \in Messages}

\* the message of the error attempt 1 ends with
NativeError(answer) ==
    IF answer.kind = "empty" THEN "Model returned no audio data." ELSE answer.message

\* the message of the error generateSingleVoice throws
SingleVoiceError(answer) ==
    IF answer.kind = "empty" THEN "No audio data returned from Gemini API" ELSE answer.message

\* an error text that carries the fallback's message alone
CloneErrorTextOfFallback(nativeMessage, fallbackMessage) ==
    <<"Voice Generation failed. Fallback error: ", fallbackMessage>>

\* `Voice Generation failed. Native error: ${error.message}. Fallback error: ${fallbackError.message}`
CloneErrorText(nativeMessage, fallbackMessage) ==
    <<"Voice Generation failed. Native error: ", nativeMessage, ". Fallback error: ",
      fallbackMessage>>

\* an invocation up to its first await
NewCloneCall(params) ==
    [params |-> params, pc |-> "native", requests |-> <<NativeRequest(params)>>,
     answers |-> <<>>, result |-> null]

generateClonedSpeech(params) ==
    /\ Len(cloneCalls) < MaxCloneCalls
    /\ cloneCalls' = Append(cloneCalls, NewCloneCall(params))
    /\ UNCHANGED <<treeVars, docVars, inputVars, exportVars>>

\* attempt 1 settles: its audio is returned, or the catch block calls generateSingleVoice
NativeAnswers(c, answer) ==
    /\ cloneCalls[c].pc = "native"
    /\ cloneCalls' =
           [cloneCalls EXCEPT ![c] =
               IF answer.kind = "audio"
               THEN [@ EXCEPT !.pc = "returned", !.answers = Append(@, answer),
                              !.result = answer.data]
               ELSE [@ EXCEPT !.pc = "fallback", !.answers = Append(@, answer),
                              !.requests = Append(@, SingleVoiceRequest(cloneCalls[c].params.text,
                                                                        "Aoede"))]]
    /\ UNCHANGED <<treeVars, docVars, inputVars, exportVars>>

\* generateSingleVoice settles: its audio is returned, or the error with both messages
\* is thrown
FallbackAnswers(c, answer) ==
    /\ cloneCalls[c].pc = "fallback"
    /\ cloneCalls' =
           [cloneCalls EXCEPT ![c] =
               IF answer.kind = "audio"
               THEN [@ EXCEPT !.pc = "returned", !.answers = Append(@, answer),
                              !.result = answer.data]
               ELSE [@ EXCEPT !.pc = "thrown", !.answers = Append(@, answer),
                              !.result = CloneErrorText(NativeError(cloneCalls[c].answers[1]),
                                                        SingleVoiceError(answer))]]
    /\ UNCHANGED <<treeVars, docVars, inputVars, exportVars>>

CloneNext ==
    \/ \E params \in CloneParams : generateClonedSpeech(params)
    \/ \E c \in 1..Len(cloneCalls) :
          \E answer \in ApiAnswers(Blob("native", c)) : NativeAnswers(c, answer)
    \/ \E c \in 1..Len(cloneCalls) :
          \E answer \in ApiAnswers(Blob("plain", c)) : FallbackAnswers(c, answer)

CloneSpec == Init /\ [][CloneNext]_vars

\* the messages of the answers that were failures, in order
RECURSIVE FailureMessages(_)
FailureMessages(answers) ==
    IF answers = <<>> THEN <<>>
    ELSE (IF Head(answers).kind = "reject" THEN <<Head(answers).message>> ELSE <<>>)
             \o FailureMessages(Tail(answers))

\* the element x occurs in the sequence
Contains(seq, x) == \E k \in 1..Len(seq) : seq[k] = x

\* C26: cloned-voice generation has two tiers: plain synthesis with the fixed voice Aoede
\* is requested only after the mimicry request has been rejected or has returned no
\* audio, at most once and with the same text; what is returned is the audio of the first
\* tier that gave audio; an error is thrown only when both tiers failed, and its message
\* contains the messages of both failures.
C26_TwoTierFallback ==
    \A c \in 1..Len(cloneCalls) :
        LET call == cloneCalls[c]
            Failed(k) == k <= Len(call.answers) /\ call.answers[k].kind # "audio"
            GaveAudio(k) == k <= Len(call.answers) /\ call.answers[k].kind = "audio"
        IN  /\ Len(call.requests) \in {1, 2}
            /\ call.requests[1].model = "gemini-2.0-flash-exp"
            /\ call.requests[1].reference = call.params.referenceAudio
            /\ Len(call.requests) = 2 <=>  Failed(1)
            /\ Len(call.requests) = 2 =>
                   /\ call.requests[2].voice = "Aoede"
                   /\ call.requests[2].reference = null
                   /\ call.requests[2].text = call.params.text
            /\ call.pc = "returned" <=> (GaveAudio(1) \/ GaveAudio(2))
            /\ call.pc = "returned" =>
                   call.result = call.answers[Min({k \in 1..2 : GaveAudio(k)})].data
            /\ call.pc = "thrown" <=> (Failed(1) /\ Failed(2))
            /\ call.pc = "thrown" =>
                   /\ \A m \in {FailureMessages(call.answers)[k] :
                                    k \in 1..Len(FailureMessages(call.answers))} :
                          Contains(call.result, m)
                   /\ call.answers[1].kind = "empty" =>
                          Contains(call.result, "Model returned no audio data.")
                   /\ call.answers[2].kind = "empty" =>
                          Contains(call.result, "No audio data returned from Gemini API")

\* one invocation returned the fallback's audio after a rejected mimicry request, and
\* another threw after two rejections with different messages
C26_Witness ==
    \E c, d \in 1..Len(cloneCalls) :
        /\ cloneCalls[c].pc = "returned"
        /\ Len(cloneCalls[c].requests) = 2
        /\ cloneCalls[d].pc = "thrown"
        /\ Len(FailureMessages(cloneCalls[d].answers)) = 2
        /\ cloneCalls[d].answers[1].message # cloneCalls[d].answers[2].message

----------------------------------------------------------------------------
(* Extraction over every selection of a section's text *)

\* the text of the section extractions are made from
ExtractText == <<"a", " ", "b">>

\* every selection of a text of that length, as (selectionStart, selectionEnd)
AllSelections ==
    {<<start, end>> : start \in 0..Len(ExtractText), end \in 0..Len(ExtractText)}

\* App after one section was created from the master text and given its text
ExtractInit ==
    /\ snippets = <<NewSnippet(1, SectionName(1), ExtractText, "Kore")>>
    /\ rendered = snippets
    /\ nextId = 1
    /\ calls = <<>>
    /\ order = <<>>
    /\ edits = 0
    /\ mode = "NARRATION"
    /\ loading = FALSE
    /\ error = null
    /\ generatedAudio = null
    /\ lastGeneratedHash = EmptyHash
    /\ narrationText = ExtractText
    /\ narrationVoice = "Kore"
    /\ script = DEFAULT_SCRIPT
    /\ characters = DEFAULT_CHARACTERS
    /\ cloningText = DefaultText
    /\ cloningReference = NoFile
    /\ transcriptionFile = NoFile
    /\ transcriptionResult = <<>>
    /\ docCalls = <<>>
    /\ docEdits = 0
    /\ docIssued = 0
    /\ appName = <<"M", "y", "A", "p", "p">>
    /\ featureName = <<"T", "u", "t", "o", "r", "i", "a", "l">>
    /\ isZipping = FALSE
    /\ zips = <<>>
    /\ downloads = <<>>
    /\ alerts = 0
    /\ cloneCalls = <<>>

ExtractNext ==
    \/ \E id \in SectionIds, sel \in AllSelections : handleExtractSubsection(id, sel[1], sel[2])
    \/ \E id \in SectionIds : EditSection(id, [voice |-> "Puck"])
    \/ \E id \in SectionIds, subId \in SubsectionIds : deleteSubsection(id, subId)
    \/ \E id \in SectionIds : generateSnippet(id)
    \/ \E c \in 1..Len(calls) : ResolveSuccess(c)
    \/ Render

ExtractSpec == ExtractInit /\ [][ExtractNext]_vars

\* the texts substring(start, end) gives over a text for start < end
Substrings(text) ==
    {SubSeq(text, a, b) : a \in 1..Len(text), b \in 1..Len(text)} \ {<<>>}

\* C27: the subsection an extraction creates is the last of its parent's children, is
\* named "Part M" with M one more than the number of children the parent had, holds a
\* contiguous substring of the parent's text, has the voice the parent has at that moment,
\* and starts idle, with no artifact and no error message.
C27_ExtractedSubsectionIsWellFormed ==
    [][\A id \in Ids(snippets) :
           ExtractsInto(id) =>
               LET parent == Find(snippets, id)
                   children == Find(snippets', id).subsections
                   new == children[Len(children)]
               IN  /\ Len(children) = Len(parent.subsections) + 1
                   /\ \A j \in 1..Len(parent.subsections) :
                          children[j].id = parent.subsections[j].id
                   /\ new.name = <<"P", "a", "r", "t", " ">>
                                     \o NatToChars(Len(parent.subsections) + 1)
                   /\ new.text \in Substrings(parent.text)
                   /\ new.voice = parent.voice
                   /\ new.status = "idle"
                   /\ new.audio = null
                   /\ new.error = null
      ]_vars

\* a second subsection, holding a proper part of the text, under a section whose voice
\* was changed before the extraction
C27_Witness ==
    \E i \in 1..Len(snippets) :
        /\ snippets[i].voice = "Puck"
        /\ Len(snippets[i].subsections) = 2
        /\ snippets[i].subsections[2].text = <<"b">>
        /\ snippets[i].subsections[2].voice = "Puck"

----------------------------------------------------------------------------
(* Properties of document generations in flight *)

\* C28: a document artifact on display was produced by a generation issued in the active
\* mode: a generation's artifact and baseline are installed only while the mode is the
\* one it was issued in, and a step that changes the mode clears the artifact and the
\* baseline.
C28_ArtifactBelongsToActiveMode ==
    [][/\ \A c \in 1..Len(docCalls) : DocResolveAudio(c) => docCalls[c].mode = mode
       /\ mode' # mode => generatedAudio' = null /\ lastGeneratedHash' = EmptyHash
      ]_vars

\* the fingerprint of the inputs a generation was issued with, in the mode it was issued in
FingerprintOf(call) ==
    IF call.mode = "NARRATION"
    THEN [kind |-> "text,voice", text |-> call.inputs[1], voice |-> call.inputs[2],
          script |-> <<>>, characters |-> <<>>, ref |-> ""]
    ELSE IF call.mode = "DIALOGUE"
    THEN [kind |-> "script,characters", text |-> <<>>, voice |-> "",
          script |-> call.inputs[1], characters |-> call.inputs[2], ref |-> ""]
    ELSE IF call.mode = "CLONING"
    THEN [kind |-> "text,ref", text |-> call.inputs[1], voice |-> "", script |-> <<>>,
          characters |-> <<>>,
          ref |-> IF call.inputs[2] = NoFile THEN "undefined" ELSE call.inputs[2].name]
    ELSE EmptyHash

\* the tracked fields among the inputs a generation was issued with
TrackedOf(call) ==
    IF call.mode = "CLONING" THEN <<call.inputs[1], call.inputs[2].name>> ELSE call.inputs

\* C29: the baseline a successful document generation records is the fingerprint of the
\* inputs it was issued with, the ones sent to synthesis, not of the inputs at the time
\* it resolves: when a tracked field of the mode has been changed while the call was in
\* flight, isStale is true as soon as the artifact appears.
C29_BaselineIsOfIssuedInputs ==
    [][\A c \in 1..Len(docCalls) :
           DocResolveAudio(c) =>
               /\ lastGeneratedHash' = FingerprintOf(docCalls[c])
               /\ generatedAudio' # null
               /\ (docCalls[c].mode = mode /\ Tracked # TrackedOf(docCalls[c])) => isStale'
      ]_vars

\* the first generation's artifact is on display and stale; the second generation, issued
\* in the same mode with other inputs, is still in flight: the inputs were changed
\* between the two, while the first was in flight
C29_Witness ==
    /\ generatedAudio = Blob("doc", 1)
    /\ isStale
    /\ Len(docCalls) = 1
    /\ docCalls[1].id = 2
    /\ docCalls[1].mode = mode
    /\ docCalls[1].hash # lastGeneratedHash
    /\ docCalls[1].hash = currentContentHash

----------------------------------------------------------------------------
(* The editing surface: the handlers as the rendered controls invoke them   *)

\* generate controls that are never disabled
GenerateAlwaysEnabled(sec, sub) == Exists(rendered, sec, sub)

\* the generate controls of a node (the section's button, the subsection's two buttons,
\* the table of contents' player when it has no audio) are there and enabled unless the
\* node is rendered in status generating
GenerateEnabled(sec, sub) ==
    /\ Exists(rendered, sec, sub)
    /\ NodeOf(rendered, sec, sub).status # "generating"

ClickGenerateSection(id) ==
    /\ GenerateEnabled(id, 0)
    /\ generateSnippet(id)

ClickGenerateSubsection(id, subId) ==
    /\ GenerateEnabled(id, subId)
    /\ generateSubsection(id, subId)

\* the ids of the subsections rendered under section id
RenderedSubsections(id) == Ids(Find(rendered, id).subsections)

UiNext ==
    \/ \E sel \in Selections : addSnippetFromSelection(sel[1], sel[2])
    \/ \E id \in Ids(rendered) : removeSnippet(id)
    \/ ClearAll
    \/ \E id \in Ids(rendered), updates \in NodeUpdates : EditSection(id, updates)
    \/ \E id \in Ids(rendered), sel \in Selections : handleExtractSubsection(id, sel[1], sel[2])
    \/ \E id \in Ids(rendered) : \E subId \in RenderedSubsections(id), updates \in NodeUpdates :
          updateSubsection(id, subId, updates)
    \/ \E id \in Ids(rendered) : \E subId \in RenderedSubsections(id) : deleteSubsection(id, subId)
    \/ \E id \in Ids(rendered) : ClickGenerateSection(id)
    \/ \E id \in Ids(rendered) : \E subId \in RenderedSubsections(id) :
          ClickGenerateSubsection(id, subId)
    \/ \E c \in 1..Len(calls) : ResolveSuccess(c)
    \/ \E c \in 1..Len(calls), message \in Messages : ResolveFailure(c, message)
    \/ Render

UiSpec == Init /\ [][UiNext]_vars

\* the calls in flight for a node
InFlight(sec, sub) ==
    {c \in 1..Len(calls) : calls[c].pc = "await" /\ calls[c].sec = sec /\ calls[c].sub = sub}

\* C30: through the editing surface at most one generation job per node is outstanding:
\* in every state reachable by generate clicks, job resolutions and author edits, no node
\* has two calls in flight, and a node's generate control is enabled only when no call
\* for the node is in flight.
C30_OneJobPerNodeThroughTheSurface ==
    \A sec \in 1..MaxWork, sub \in 0..MaxWork :
        /\ Cardinality(InFlight(sec, sub)) <= 1
        /\ GenerateEnabled(sec, sub) => InFlight(sec, sub) = {}

\* a node was generated twice, one call after the other, and the second is in flight
C30_Witness ==
    \E c, d \in 1..Len(calls) :
        /\ c < d
        /\ calls[c].sec = calls[d].sec
        /\ calls[c].sub = calls[d].sub
        /\ calls[c].pc = "done"
        /\ calls[d].pc = "await"
        /\ ~GenerateEnabled(calls[d].sec, calls[d].sub)
        /\ Exists(rendered, calls[d].sec, calls[d].sub)

----------------------------------------------------------------------------
(* Progress of document-level generation *)

\* some awaited collaborator of handleGenerate settles: synthesis and decoding succeed,
\* transcription succeeds, or either one rejects
DocAnswer ==
    \/ \E c \in 1..Len(docCalls) : DocResolveAudio(c)
    \/ \E c \in 1..Len(docCalls), text \in Transcripts : DocResolveTranscript(c, text)
    \/ \E c \in 1..Len(docCalls), message \in Rejections : DocResolveFailure(c, message)

\* the document controls that lead handleGenerate down each of its paths
DocLiveNext ==
    \/ handleGenerate
    \/ DocAnswer
    \/ \E m \in Modes : SetMode(m)
    \/ \E text \in DocTextInputs : setNarrationText(text)
    \/ \E file \in Files : file.data = "d1" /\ handleTranscriptionUpload(file)

\* the collaborators answer every outstanding document-level call
DocLiveSpec == Init /\ [][DocLiveNext]_vars /\ WF_vars(DocAnswer)

\* C31: every handleGenerate invocation ends with the loading flag cleared: a
\* validation failure clears it in the same step, every answer of a collaborator
\* (audio, transcript, rejection or decode failure) clears it, the flag is only up
\* while some invocation is still awaiting, and an up flag always comes down
C31_LoadingIsEventuallyCleared ==
    /\ [](loading => docCalls # <<>>)
    /\ [][/\ (handleGenerate /\ ValidationError # null) => loading' = FALSE
          /\ Len(docCalls') < Len(docCalls) => loading' = FALSE]_vars
    /\ (loading ~> ~loading)

\* every path has been taken and the flag is down: a transcript and an artifact are on
\* display, an error of a failed attempt is shown, nothing is awaited
C31_Witness ==
    /\ ~loading
    /\ docCalls = <<>>
    /\ docIssued >= 3
    /\ transcriptionResult # <<>>
    /\ error \in {ErrorText(m) : m \in Rejections}

----------------------------------------------------------------------------
(* Single-file download names against the members of the bundle *)

\* the app names of the download check: none, a blank one, one that is stripped to
\* nothing and one that leaves a hyphen next to its letter
DownloadAppNames == {<<>>, <<" ">>, <<"!">>, <<"a", " ", "!">>}

\* a section name that is kept and one that is stripped to nothing
DownloadSectionNames == {<<"A", " ", " ", "_">>, <<"!">>}

DownloadInit ==
    /\ snippets \in {<<>>} \cup {NamedTree(name) : name \in DownloadSectionNames}
    /\ rendered = snippets
    /\ nextId = 2
    /\ calls = <<>>
    /\ order = <<>>
    /\ edits = 0
    /\ mode = "NARRATION"
    /\ loading = FALSE
    /\ error = null
    /\ generatedAudio = null
    /\ lastGeneratedHash = EmptyHash
    /\ narrationText = DefaultText
    /\ narrationVoice = "Kore"
    /\ script = DEFAULT_SCRIPT
    /\ characters = DEFAULT_CHARACTERS
    /\ cloningText = DefaultText
    /\ cloningReference = NoFile
    /\ transcriptionFile = NoFile
    /\ transcriptionResult = <<>>
    /\ docCalls = <<>>
    /\ docEdits = 0
    /\ docIssued = 0
    /\ appName \in DownloadAppNames
    /\ featureName \in FeatureNames
    /\ isZipping = FALSE
    /\ zips = <<>>
    /\ downloads = <<>>
    /\ alerts = 0
    /\ cloneCalls = <<>>

DownloadSpec == DownloadInit /\ [][ExportNext]_vars

\* formatFileName of App, handed to SectionEditor as its generateFileName
formatFileName(parts) ==
    LET kept == SelectSeq(parts, LAMBDA p : trim(p) # <<>>)
        mapped == [i \in 1..Len(kept) |-> StripOtherChars(HyphenateWhitespace(trim(kept[i])))]
    IN  join(mapped, <<"-">>)

\* the fileName SectionEditor hands to the AudioPlayer of a section (sub = 0) or of a
\* subsection
PlayerFileName(tree, sec, sub) ==
    IF sub = 0 THEN formatFileName(<<appName, featureName, NodeOf(tree, sec, 0).name>>)
    ELSE formatFileName(<<appName, featureName, NodeOf(tree, sec, 0).name,
                          NodeOf(tree, sec, sub).name>>)

\* a name character by character, the '.wav' that was appended in one piece spelled out
Spelled(name) ==
    Flatten([k \in 1..Len(name) |-> IF name[k] = ".wav" THEN DotWav ELSE <<name[k]>>])

\* C32: for every node holding an artifact and every choice of app, feature, section
\* and subsection names, the name the node's AudioPlayer offers for its download is the
\* name of the node's audio member in the exported bundle.
C32_DownloadNameIsMemberName ==
    \A z \in 1..Len(zips) :
        zips[z].pc # "returned" =>
            \A n \in Holders(zips[z].tree) :
                /\ MemberName(zips[z].tree, n) \in AudioMembers(zips[z].files)
                /\ downloadName(PlayerFileName(zips[z].tree, n[1], n[2]))
                       = Spelled(MemberName(zips[z].tree, n))

----------------------------------------------------------------------------
(* Parts that are stripped to nothing *)

\* what one part becomes after trimming, hyphenating and stripping
Sanitized(part) == StripOtherChars(HyphenateWhitespace(trim(part)))

\* the parts that are not blank and keep at least one character
SurvivingParts(parts) ==
    SelectSeq(parts, LAMBDA part : trim(part) # <<>> /\ Sanitized(part) # <<>>)

\* C33: a part that is not blank but has only characters outside [A-Za-z0-9_-] leaves
\* no trace in the name, as "!!!" leaves none in sanitize(["App", "!!!"]): for every
\* list of parts of an export the name is the name of the list without such parts, and
\* it is the sanitized surviving parts joined by single hyphens, so joining puts no
\* hyphen at the start, at the end or next to another one.
C33_StrippedPartLeavesNoTrace ==
    \A z \in 1..Len(zips) :
        zips[z].pc # "returned" =>
            \A parts \in PartsLists(zips[z].tree) :
                /\ generateFileName(parts) = generateFileName(SurvivingParts(parts))
                /\ formatFileName(parts) = formatFileName(SurvivingParts(parts))
                /\ generateFileName(parts)
                       = join([i \in 1..Len(SurvivingParts(parts)) |->
                                  Sanitized(SurvivingParts(parts)[i])], <<"-">>)

----------------------------------------------------------------------------
(* The name of a name *)

\* C35: sanitizing is idempotent and closed over its output alphabet: for every list of
\* parts of an export the name holds only characters of [A-Za-z0-9_-], and the name of
\* the one-part list made of that name is the same name.
C35_SanitizeIsIdempotent ==
    \A z \in 1..Len(zips) :
        zips[z].pc # "returned" =>
            \A parts \in PartsLists(zips[z].tree) :
                /\ SelectSeq(generateFileName(parts), LAMBDA ch : ch \notin NameChars) = <<>>
                /\ generateFileName(<<generateFileName(parts)>>) = generateFileName(parts)

\* a delivered export under an app name with an allowed character, whitespace and a
\* stripped character, whose subsection name holds a dot: the names are not empty and
\* differ from what was typed
C35_Witness ==
    \E z \in 1..Len(zips) :
        /\ zips[z].pc = "delivered"
        /\ appName = <<"a", " ", "!">>
        /\ zips[z].folderName \notin {<<>>, appName}
        /\ \E parts \in PartsLists(zips[z].tree) :
               /\ Len(parts) = 4
               /\ "." \in {parts[4][k] : k \in 1..Len(parts[4])}
               /\ generateFileName(parts) # <<>>

----------------------------------------------------------------------------
(* Dialogue mode: the cast and the script *)

\* crypto.randomUUID() for a speaker or a line: an id that is none of the defaults'
\* and none handed out before
randomUUID == Max(Ids(DEFAULT_CHARACTERS) \cup Ids(DEFAULT_SCRIPT)) + nextId + 1

\* the cast may not grow beyond this many speakers
MaxSpeakers == 5

castFrame == <<mode, loading, error, generatedAudio, lastGeneratedHash, cloningText,
               cloningReference, transcriptionFile, transcriptionResult, docJobs,
               snippets, rendered, calls, order, edits, exportVars, serviceVars, inputVars>>

\* the '+ Add Speaker' button, shown in dialogue mode while the cast is not full
addSpeaker ==
    /\ mode = "DIALOGUE"
    /\ Len(characters) < MaxSpeakers
    /\ DocEdit
    /\ characters' = Append(characters, [id |-> randomUUID,
                                         name |-> SpeakerName(Len(characters) + 1),
                                         voice |-> "Kore"])
    /\ nextId' = nextId + 1
    /\ UNCHANGED <<script, castFrame>>

\* the remove button of a speaker, shown in dialogue mode while the cast has another one
removeSpeaker(id) ==
    /\ mode = "DIALOGUE"
    /\ Len(characters) > 1
    /\ DocEdit
    /\ characters' = SelectSeq(characters, LAMBDA c : c.id # id)
    /\ UNCHANGED <<script, nextId, castFrame>>

\* Array.prototype.findIndex on ids, counted from 1: 0 when no element has the id
findIndex(seq, id) ==
    IF id \in Ids(seq) THEN Min({i \in 1..Len(seq) : seq[i].id = id}) ELSE 0

addScriptLine ==
    LET lastCharId == IF Len(script) > 0 THEN script[Len(script)].characterId
                      ELSE characters[1].id
        nextCharId == IF Len(characters) > 1
                      THEN characters[(findIndex(characters, lastCharId) % Len(characters)) + 1].id
                      ELSE lastCharId
    IN  /\ DocEdit
        /\ script' = Append(script, [id |-> randomUUID, characterId |-> nextCharId,
                                     text |-> <<>>])
        /\ nextId' = nextId + 1
        /\ UNCHANGED <<characters, castFrame>>

Unknown == <<"U", "n", "k", "n", "o", "w", "n">>

\* generateDialogue: the speaker a line is announced under
SpeakerLabel(cast, line) ==
    IF line.characterId \in Ids(cast) THEN Find(cast, line.characterId).name ELSE Unknown

\* generateDialogue: the multi-speaker prompt
promptText(params) ==
    join([i \in 1..Len(params.script) |->
             SpeakerLabel(params.characters, params.script[i]) \o <<":", " ">>
                 \o params.script[i].text],
         <<"\n">>)

\* the { script, characters } handleGenerate passed when it issued the call
DialogueParams(call) == [script |-> call.inputs[1], characters |-> call.inputs[2]]

DialogueNext ==
    \/ SetMode("DIALOGUE")
    \/ addSpeaker
    \/ \E id \in Ids(characters) : removeSpeaker(id)
    \/ addScriptLine
    \/ \E id \in Ids(script) : removeScriptLine(id)
    \/ \E id \in Ids(script), value \in Ids(characters) :
           updateScriptLine(id, "characterId", value)
    \/ handleGenerate
    \/ \E c \in 1..Len(docCalls) : DocResolveAudio(c)

DialogueSpec == Init /\ [][DialogueNext]_vars

\* C34: in dialogue mode, after any sequence of add-speaker, remove-speaker, add-line,
\* remove-line and update-line operations, every line of the script names a speaker of
\* the cast, and no line of a prompt sent for synthesis is announced under "Unknown".
C34_EveryLineHasASpeaker ==
    /\ \A i \in 1..Len(script) : script[i].characterId \in Ids(characters)
    /\ \A c \in 1..Len(docCalls) :
           docCalls[c].mode = "DIALOGUE" =>
               \A i \in 1..Len(DialogueParams(docCalls[c]).script) :
                   SpeakerLabel(DialogueParams(docCalls[c]).characters,
                                DialogueParams(docCalls[c]).script[i]) # Unknown

====
